---------------------------- MODULE Spec2Model ----------------------------
(***************************************************************************)
(* The image-frame proxy of the HealthImaging platform                     *)
(* (python/src/lambda_handlers/get_presigned_url/handler.py): one Lambda   *)
(* invocation is followed from lambda_handler through list_image_sets or   *)
(* get_image_frame, one step per collaborator call or block of the         *)
(* handler.  The metadata store's replies are the environment's choice.    *)
(* The older handler of the same name, which signs a URL of the image      *)
(* set's file in the bucket, is followed in a specification of its own.    *)
(***************************************************************************)
EXTENDS Integers, Sequences, FiniteSets, TLC

(***************************************************************************)
(* Bounds of the model.                                                    *)
(***************************************************************************)
\* series per study in the enumerated documents
MaxSeries == 2
\* instances per series in the enumerated documents
MaxInst == 2
\* frames of a non-empty instance in the enumerated documents
MaxFrames == 2
\* length of the frame buffers enumerated exhaustively over ByteAlphabet
MaxArb == 2
\* image sets a search_image_sets reply may list
MaxSets == 2

(***************************************************************************)
(* Python values.                                                          *)
(***************************************************************************)
\* Python's None, where the other values of the variable are strings
None == "None"

\* the empty dict {}
EmptyDict == [k \in {} |-> k]

\* dict.get(k, default)
Get(d, k, default) == IF k \in DOMAIN d THEN d[k] ELSE default

\* the slice b[lo:hi] of a bytes object (0-based, hi exclusive, clamped)
Slice(b, lo, hi) ==
    LET top == IF hi < Len(b) THEN hi ELSE Len(b)
    IN  IF lo >= top THEN <<>> ELSE SubSeq(b, lo + 1, top)

(***************************************************************************)
(* Magic bytes.                                                            *)
(***************************************************************************)
\* b'\xff\xd8'
MagicJPEG == <<255, 216>>
\* b'\x89PNG'
MagicPNG == <<137, 80, 78, 71>>
\* b'\xff\x4f'
MagicJ2K == <<255, 79>>
\* b'jP', looked for at offset 4
MagicJP2 == <<106, 80>>
\* b'\x1f\x8b'
MagicGzip == <<31, 139>>

\* the signature table of the specification (section 4.3)
SigJPEG == <<255, 216>>
SigPNG == <<137, 80, 78, 71>>
SigJ2KCodestream == <<255, 79, 255, 81>>
SigJP2Box == <<0, 0, 0, 12, 106, 80, 32, 32, 13, 10, 135, 10>>
Signatures == {SigJPEG, SigPNG, SigJ2KCodestream, SigJP2Box}

StartsWith(b, sig) == Len(b) >= Len(sig) /\ SubSeq(b, 1, Len(sig)) = sig

(***************************************************************************)
(* Format detection of get_image_frame: the tag output_format gets from    *)
(* the if/elif chain, before any conversion.                               *)
(***************************************************************************)
\* mutant: the JPEG 2000 test is tried first
Sniff_JP2First(frame_data) ==
    IF \/ Slice(frame_data, 0, 2) = MagicJ2K
       \/ (Len(frame_data) > 5 /\ Slice(frame_data, 4, 6) = MagicJP2)
    THEN "jp2"
    ELSE IF Slice(frame_data, 0, 2) = MagicJPEG THEN "jpeg"
    ELSE IF Slice(frame_data, 0, 4) = MagicPNG THEN "png"
    ELSE "original"

\* mutant: the test for 'jP' at offset 4 is left out
Sniff_NoBoxTest(frame_data) ==
    IF Slice(frame_data, 0, 2) = MagicJPEG THEN "jpeg"
    ELSE IF Slice(frame_data, 0, 4) = MagicPNG THEN "png"
    ELSE IF Slice(frame_data, 0, 2) = MagicJ2K THEN "jp2"
    ELSE "original"

\* mutant: the PNG branch sets the tag of the JPEG branch
Sniff_PngTaggedJpeg(frame_data) ==
    IF Slice(frame_data, 0, 2) = MagicJPEG THEN "jpeg"
    ELSE IF Slice(frame_data, 0, 4) = MagicPNG THEN "jpeg"
    ELSE IF \/ Slice(frame_data, 0, 2) = MagicJ2K
            \/ (Len(frame_data) > 5 /\ Slice(frame_data, 4, 6) = MagicJP2)
         THEN "jp2"
    ELSE "original"

Sniff(frame_data) ==
    IF Slice(frame_data, 0, 2) = MagicJPEG THEN "jpeg"
    ELSE IF Slice(frame_data, 0, 4) = MagicPNG THEN "png"
    ELSE IF \/ Slice(frame_data, 0, 2) = MagicJ2K
            \/ (Len(frame_data) > 5 /\ Slice(frame_data, 4, 6) = MagicJP2)
         THEN "jp2"
    ELSE "original"

(***************************************************************************)
(* Pillow's img.save(png_buffer, format='PNG'): the result is a PNG file,  *)
(* the 8-byte PNG signature followed by the chunks; the chunks' content is *)
(* abstracted to the bytes the image was decoded from.                     *)
(***************************************************************************)
PngOf(frame_data) == <<137, 80, 78, 71, 13, 10, 26, 10>> \o frame_data

(***************************************************************************)
(* base64.b64encode: three bytes become four sextets; 64 stands for the    *)
(* padding character '='.                                                  *)
(***************************************************************************)
RECURSIVE b64encode(_)
b64encode(b) ==
    IF Len(b) = 0 THEN <<>>
    ELSE IF Len(b) = 1 THEN
        <<b[1] \div 4, (b[1] % 4) * 16, 64, 64>>
    ELSE IF Len(b) = 2 THEN
        <<b[1] \div 4, (b[1] % 4) * 16 + (b[2] \div 16), (b[2] % 16) * 4, 64>>
    ELSE
        <<b[1] \div 4, (b[1] % 4) * 16 + (b[2] \div 16),
          (b[2] % 16) * 4 + (b[3] \div 64), b[3] % 64>>
        \o b64encode(SubSeq(b, 4, Len(b)))

(***************************************************************************)
(* extract_frame_info.  A dict the code iterates with .items() is a        *)
(* sequence of its values in iteration order.                              *)
(***************************************************************************)
\* mutant: BitsAllocated defaults to 16
FrameInfoOf_Bits16(instance, frames) ==
    LET dicom_tags == Get(instance, "DICOM", EmptyDict)
    IN  [frameId |-> Get(frames[1], "ID", None),
         width |-> Get(dicom_tags, "Columns", 512),
         height |-> Get(dicom_tags, "Rows", 512),
         bitsAllocated |-> Get(dicom_tags, "BitsAllocated", 16),
         photometric |-> Get(dicom_tags, "PhotometricInterpretation", "MONOCHROME2")]

\* mutant: width is read from Rows and height from Columns
FrameInfoOf_Swapped(instance, frames) ==
    LET dicom_tags == Get(instance, "DICOM", EmptyDict)
    IN  [frameId |-> Get(frames[1], "ID", None),
         width |-> Get(dicom_tags, "Rows", 512),
         height |-> Get(dicom_tags, "Columns", 512),
         bitsAllocated |-> Get(dicom_tags, "BitsAllocated", 8),
         photometric |-> Get(dicom_tags, "PhotometricInterpretation", "MONOCHROME2")]

\* mutant: the last frame of the instance is taken
FrameInfoOf_LastFrame(instance, frames) ==
    LET dicom_tags == Get(instance, "DICOM", EmptyDict)
    IN  [frameId |-> Get(frames[Len(frames)], "ID", None),
         width |-> Get(dicom_tags, "Columns", 512),
         height |-> Get(dicom_tags, "Rows", 512),
         bitsAllocated |-> Get(dicom_tags, "BitsAllocated", 8),
         photometric |-> Get(dicom_tags, "PhotometricInterpretation", "MONOCHROME2")]

\* the dict returned for the first instance with a non-empty ImageFrames
FrameInfoOf(instance, frames) ==
    LET dicom_tags == Get(instance, "DICOM", EmptyDict)
    IN  [frameId |-> Get(frames[1], "ID", None),
         width |-> Get(dicom_tags, "Columns", 512),
         height |-> Get(dicom_tags, "Rows", 512),
         bitsAllocated |-> Get(dicom_tags, "BitsAllocated", 8),
         photometric |-> Get(dicom_tags, "PhotometricInterpretation", "MONOCHROME2")]

\* mutant: only the first instance of a series is looked at
ScanInstances_FirstOnly(instances, j) ==
    IF j > Len(instances) THEN EmptyDict
    ELSE LET instance == instances[j]
             frames == Get(instance, "ImageFrames", <<>>)
         IN  IF frames # <<>> THEN FrameInfoOf(instance, frames)
             ELSE EmptyDict

\* the inner loop: over the instances of one series, from the j-th on
RECURSIVE ScanInstances(_, _)
ScanInstances(instances, j) ==
    IF j > Len(instances) THEN EmptyDict
    ELSE LET instance == instances[j]
             frames == Get(instance, "ImageFrames", <<>>)
         IN  IF frames # <<>> THEN FrameInfoOf(instance, frames)
             ELSE ScanInstances(instances, j + 1)

\* the outer loop: over the series, from the i-th on
RECURSIVE ScanSeries(_, _)
ScanSeries(series, i) ==
    IF i > Len(series) THEN EmptyDict
    ELSE LET found == ScanInstances(Get(series[i], "Instances", <<>>), 1)
         IN  IF found # EmptyDict THEN found ELSE ScanSeries(series, i + 1)

\* extract_frame_info(metadata); EmptyDict stands for the None it returns
extract_frame_info(metadata) ==
    LET study == Get(metadata, "Study", EmptyDict)
    IN  ScanSeries(Get(study, "Series", <<>>), 1)


(***************************************************************************)
(* The metadata documents the store may hold.  The values of an instance's *)
(* DICOM attributes and the IDs of its frames depend on where it sits in   *)
(* the document, so that no two instances or frames look alike.            *)
(***************************************************************************)
Tags == {"Rows", "Columns", "BitsAllocated", "PhotometricInterpretation"}

TagValue(t, s, i) ==
    CASE t = "Rows" -> 1000 + 10 * s + i
      [] t = "Columns" -> 2000 + 10 * s + i
      [] t = "BitsAllocated" -> 3000 + 10 * s + i
      [] OTHER -> "PI" \o ToString(s) \o ToString(i)

FrameIdAt(s, i, k) == "f" \o ToString(s) \o ToString(i) \o ToString(k)

\* the i-th instance of the s-th series: n frames, DICOM lacking `lacking`
InstanceAt(s, i, n, lacking) ==
    [ImageFrames |-> [k \in 1..n |-> [ID |-> FrameIdAt(s, i, k)]],
     DICOM |-> [t \in Tags \ lacking |-> TagValue(t, s, i)]]

\* a document's shape: per series, per instance, the number of frames
SeriesShapes == UNION {[1..n -> {0, MaxFrames}] : n \in 0..MaxInst}
DocShapes == UNION {[1..n -> SeriesShapes] : n \in 0..MaxSeries}

DocOfShape(sh) ==
    [Study |-> [Series |->
        [s \in 1..Len(sh) |-> [Instances |->
            [i \in 1..Len(sh[s]) |-> InstanceAt(s, i, sh[s][i], {})]]]]]

\* every shape, all attributes present
ShapeDocs == {DocOfShape(sh) : sh \in DocShapes}

\* one series of two instances, each lacking a set of attributes
TagDocs ==
    {[Study |-> [Series |-> <<[Instances |->
          <<InstanceAt(1, 1, n, m1), InstanceAt(1, 2, 1, m2)>>]>>]] :
        <<n, m1, m2>> \in {0, 1} \X (SUBSET Tags) \X {{}, Tags}}

\* documents with a level of the hierarchy, or a key, absent
SparseDocs ==
    {EmptyDict,
     [Study |-> EmptyDict],
     [Study |-> [Series |-> <<EmptyDict>>]],
     [Study |-> [Series |-> <<[Instances |-> <<EmptyDict>>]>>]],
     [Study |-> [Series |-> <<[Instances |->
         <<[DICOM |-> [Rows |-> 64]],
           [ImageFrames |-> <<[ID |-> "f1"], [ID |-> "f2"]>>]>>]>>]],
     [Study |-> [Series |-> <<[Instances |->
         <<[ImageFrames |-> <<EmptyDict, [ID |-> "f2"]>>]>>]>>]],
     [Study |-> [Series |-> <<[Instances |->
         <<[ImageFrames |-> <<[ID |-> ""], [ID |-> "f2"]>>]>>]>>]]}

Docs == ShapeDocs \cup TagDocs \cup SparseDocs

(***************************************************************************)
(* The frame buffers the store may hold: every prefix of a signature,      *)
(* every signature with one byte replaced or one byte appended, and every  *)
(* buffer of at most MaxArb bytes over ByteAlphabet.                       *)
(***************************************************************************)
ByteAlphabet == {0, 12, 79, 80, 81, 106, 137, 216, 255}

Prefixes(sig) == {SubSeq(sig, 1, n) : n \in 0..Len(sig)}

Replaced(sig) ==
    {[k \in 1..Len(sig) |-> IF k = p THEN v ELSE sig[k]] :
        <<p, v>> \in (1..Len(sig)) \X ByteAlphabet}

Appended(sig) == {Append(sig, v) : v \in ByteAlphabet}

\* a JPEG or PNG signature with 6A 50 at offsets 4 and 5
Overlapping == {<<255, 216, 0, 0, 106, 80>>, <<137, 80, 78, 71, 106, 80, 0>>}

Buffers ==
    UNION {Prefixes(sig) \cup Replaced(sig) \cup Appended(sig) : sig \in Signatures}
    \cup Overlapping
    \cup UNION {[1..n -> ByteAlphabet] : n \in 0..MaxArb}

\* what the store holds when the other half of its content is enumerated
SampleDoc == DocOfShape(<<<<MaxFrames>>>>)
SampleBuffer == <<255, 216, 255, 0>>

\* the keys under which the bucket may hold the DICOM file of an image set
ObjectKeys(id) ==
    <<"input/" \o id \o ".dcm", "input/" \o id \o ".DCM",
      "upload/" \o id \o ".dcm", "upload/" \o id \o ".DCM">>

KeySets(id) == SUBSET {ObjectKeys(id)[k] : k \in DOMAIN ObjectKeys(id)}

\* the documents with which the content of the bucket is enumerated
BucketDocs == SparseDocs \cup {SampleDoc}

Contents ==
    {[doc |-> d, frame |-> SampleBuffer, objects |-> {}] : d \in Docs}
    \cup {[doc |-> SampleDoc, frame |-> b, objects |-> {}] : b \in Buffers}
    \cup {[doc |-> d, frame |-> SampleBuffer, objects |-> o] :
             <<d, o>> \in BucketDocs \X UNION {KeySets(id) : id \in {"abc"}}}

(***************************************************************************)
(* The metadata blob.  A blob is described by its two leading bytes and by *)
(* what the decoders make of it: gzip.decompress yields the member         *)
(* `deflate` (and raises when the stream is damaged and has none),         *)
(* json.loads yields the member `json` (and raises when the text is no     *)
(* JSON document and has none).                                            *)
(***************************************************************************)
JsonText(doc) == [head |-> <<123, 34>>, json |-> doc]
BadText == [head |-> <<60, 104>>]
Gzip(text) == [head |-> MagicGzip, deflate |-> text]
BadGzip == [head |-> MagicGzip]

BlobsOf(doc) ==
    {JsonText(doc), Gzip(JsonText(doc)), BadText, Gzip(BadText), BadGzip}

\* mutant: the blob is compared with the magic bytes in the other order
Decompressed_Swapped(blob) ==
    IF blob.head = <<139, 31>> THEN Get(blob, "deflate", EmptyDict) ELSE blob

\* lines 93-94: the blob after the optional decompression; EmptyDict
\* stands for the exception of gzip.decompress
Decompressed(blob) ==
    IF blob.head = MagicGzip THEN Get(blob, "deflate", EmptyDict) ELSE blob

\* mutant: the document is indexed with metadata['Study'], so one without a
\* Study ends like a blob that does not parse
Parses_KeyError(blob) ==
    /\ "json" \in DOMAIN Decompressed(blob)
    /\ "Study" \in DOMAIN Decompressed(blob).json

\* line 96 returns a document
Parses(blob) == "json" \in DOMAIN Decompressed(blob)

\* line 96: json.loads(metadata_blob.decode('utf-8'))
json_loads(blob) == Decompressed(blob).json

(***************************************************************************)
(* Requests and replies.                                                   *)
(***************************************************************************)
ImageSetIds == {"abc"}

\* the query parameters of an event; a null queryStringParameters and an
\* empty one are the same dict after `or {}`
QueryParams ==
    {EmptyDict} \cup {[imageSetId |-> i] : i \in ImageSetIds \cup {""}}
    \cup {[action |-> a] : a \in {"list", "getFrame"}}
    \cup {[imageSetId |-> i, action |-> a] :
            <<i, a>> \in (ImageSetIds \cup {""}) \X {"list", "getFrame", "export"}}

Events == {EmptyDict} \cup {[queryStringParameters |-> q] : q \in QueryParams}

\* how a call of the medical-imaging client ends
Outcomes ==
    {"ok", "ResourceNotFoundException", "AccessDeniedException",
     "InternalServerException"}

\* how the Pillow block ends: the import fails, Image.open fails, img.save
\* fails, or the PNG is produced
PillowOutcomes == {"ImportError", "OpenError", "SaveError", "ok"}

\* mutant: output_format is set before img.save has succeeded
Transcoded_TagBeforeSave(pil, data, format) ==
    IF pil = "ok"
    THEN [frame_data |-> PngOf(data), output_format |-> "png"]
    ELSE IF pil = "SaveError"
    THEN [frame_data |-> data, output_format |-> "png"]
    ELSE [frame_data |-> data, output_format |-> format]

\* lines 141-155: frame_data and output_format after the Pillow block; the
\* two assignments come after img.save, so a failure leaves both as they were
Transcoded(pil, data, format) ==
    IF pil = "ok"
    THEN [frame_data |-> PngOf(data), output_format |-> "png"]
    ELSE [frame_data |-> data, output_format |-> format]

\* Python's `not v` for a string or None
Falsy(v) == v \in {None, ""}

\* mutant: the status code of every error is 500
error_response_Fixed500(status_code, message) ==
    [statusCode |-> 500, body |-> [error |-> message]]

\* error_response(status_code, message), without the constant CORS headers
error_response(status_code, message) ==
    [statusCode |-> status_code, body |-> [error |-> message]]

\* mutant: the identifier is checked before the action is looked at
Dispatch_IdFirst(id, act) ==
    IF Falsy(id) THEN "reject"
    ELSE IF act = "list" THEN "list"
    ELSE "lookup"

\* mutant: the identifier is not checked
Dispatch_NoIdCheck(id, act) ==
    IF act = "list" THEN "list" ELSE "lookup"

\* lines 32-39 of lambda_handler: where the request goes
Dispatch(id, act) ==
    IF act = "list" THEN "list"
    ELSE IF Falsy(id) THEN "reject"
    ELSE "lookup"

\* what the calls and the decoders of get_image_frame may raise
Exceptions == (Outcomes \ {"ok"}) \cup {"DecodeError"}

\* mutant: only the errors of the medical-imaging client are caught
Caught_ClientErrorOnly(exc) == exc \in Outcomes \ {"ok"}

\* lines 177-181: the two except clauses end with `except Exception`, which
\* catches whatever the try block raises
Caught(exc) == exc \in Exceptions

\* lines 177-181: where get_image_frame stands after an exception: it has
\* returned, or the exception has left it
AfterFailure(exc) == IF Caught(exc) THEN "done" ELSE "raised"

\* mutant: the message of the 404 does not say which image set
FailureResponse_Anonymous(exc, id) ==
    IF exc = "ResourceNotFoundException"
    THEN error_response(404, "Image set not found")
    ELSE error_response(500, "Failed to get frame: " \o exc)

\* mutant: ResourceNotFoundException has no clause of its own
FailureResponse_Always500(exc, id) ==
    error_response(500, "Failed to get frame: " \o exc)

\* lines 177-181: the response to an exception raised in get_image_frame
FailureResponse(exc, id) ==
    IF exc = "ResourceNotFoundException"
    THEN error_response(404, "Image set not found: " \o id)
    ELSE error_response(500, "Failed to get frame: " \o exc)

\* lines 159-175: the success envelope
FrameResponse(id, info, original, data, format) ==
    [statusCode |-> 200,
     body |-> [source |-> "healthimaging",
               imageSetId |-> id,
               frameId |-> info.frameId,
               frameSize |-> Len(original),
               outputSize |-> Len(data),
               width |-> Get(info, "width", 512),
               height |-> Get(info, "height", 512),
               format |-> format,
               bitsAllocated |-> Get(info, "bitsAllocated", 8),
               photometric |-> Get(info, "photometric", "MONOCHROME2"),
               data |-> b64encode(data)]]

\* lines 57-72: the envelope of the list action, for n summaries
ListResponse(n) ==
    [statusCode |-> 200,
     body |-> [source |-> "healthimaging",
               count |-> n,
               imageSets |-> [k \in 1..n |-> [imageSetId |-> "set" \o ToString(k)]]]]

(***************************************************************************)
(* State.                                                                  *)
(***************************************************************************)
VARIABLES
    pc,             \* where the invocation stands
    store,          \* what the metadata store holds for the image set
    image_set_id,   \* lambda_handler's image_set_id
    action,         \* lambda_handler's action
    metadata_blob,  \* get_image_frame's metadata_blob, as read
    metadata,       \* get_image_frame's metadata
    frame_info,     \* get_image_frame's frame_info
    frame_blob,     \* the bytes read from imageFrameBlob
    frame_data,     \* get_image_frame's frame_data
    output_format,  \* get_image_frame's output_format
    calls,          \* the collaborator calls of this invocation, in order
    response,       \* the value the handler returned
    warm,           \* the execution environment has served a request before
    client,         \* healthimaging/client.py: arguments and results of its functions
    waiter,         \* healthimaging/client.py: a call of wait_for_import_job
    jwks_cache,     \* oidc_authorizer: _jwks_cache, <<>> for None, else <<key set>>
    authorizer,     \* oidc_authorizer: an invocation of lambda_handler
    ingestion,      \* image_ingestion: an invocation of lambda_handler
    evaluation      \* model_evaluation: an invocation of lambda_handler

vars == <<pc, store, image_set_id, action, metadata_blob, metadata, frame_info,
          frame_blob, frame_data, output_format, calls, response, warm,
          client, waiter, jwks_cache, authorizer, ingestion, evaluation>>

\* the state of the other modules, which the two get_presigned_url handlers
\* do not touch
units == <<client, waiter, jwks_cache, authorizer, ingestion, evaluation>>

\* the other modules before any of their functions is called
UnitsIdle ==
    /\ client = [pc |-> "idle"]
    /\ waiter = [pc |-> "idle"]
    /\ jwks_cache = <<>>
    /\ authorizer = [pc |-> "idle"]
    /\ ingestion = [pc |-> "idle"]
    /\ evaluation = [pc |-> "idle"]

locals == <<metadata_blob, metadata, frame_info, frame_blob, frame_data,
            output_format>>

\* mutant: the names are module-level and keep what the last call left
Unbound_Global ==
    [metadata_blob |-> metadata_blob, metadata |-> metadata,
     frame_info |-> frame_info, frame_blob |-> frame_blob,
     frame_data |-> frame_data, output_format |-> output_format]

\* line 78: the names of get_image_frame are local to the call, so a new call
\* starts with none of them bound
Unbound ==
    [metadata_blob |-> EmptyDict, metadata |-> EmptyDict,
     frame_info |-> EmptyDict, frame_blob |-> <<>>,
     frame_data |-> <<>>, output_format |-> None]

Init ==
    /\ pc = "idle"
    /\ store \in Contents
    /\ image_set_id = None
    /\ action = None
    /\ metadata_blob = EmptyDict
    /\ metadata = EmptyDict
    /\ frame_info = EmptyDict
    /\ frame_blob = <<>>
    /\ frame_data = <<>>
    /\ output_format = None
    /\ calls = <<>>
    /\ response = EmptyDict
    /\ warm = FALSE
    /\ UnitsIdle

\* lambda_handler, lines 20-39: a new invocation, up to the dispatch
Invoke ==
    /\ pc \in {"idle", "done", "raised"}
    /\ UNCHANGED units
    /\ \E event \in Events :
         LET query_params == Get(event, "queryStringParameters", EmptyDict)
             id == Get(query_params, "imageSetId", None)
             act == Get(query_params, "action", "getFrame")
             to == Dispatch(id, act)
         IN  /\ image_set_id' = id
             /\ action' = act
             /\ IF to = "reject"
                THEN /\ response' = error_response(400, "Missing imageSetId parameter")
                     /\ pc' = "done"
                ELSE /\ response' = EmptyDict
                     /\ pc' = to
    /\ metadata_blob' = Unbound.metadata_blob
    /\ metadata' = Unbound.metadata
    /\ frame_info' = Unbound.frame_info
    /\ frame_blob' = Unbound.frame_blob
    /\ frame_data' = Unbound.frame_data
    /\ output_format' = Unbound.output_format
    /\ calls' = <<>>
    /\ warm' = (pc # "idle")
    /\ UNCHANGED store

\* list_image_sets, lines 48-75
ListImageSets ==
    /\ pc = "list"
    /\ UNCHANGED units
    /\ \/ \E n \in 0..MaxSets :
             /\ calls' = Append(calls, [op |-> "search_image_sets",
                                        result |-> "ok", summaries |-> n])
             /\ response' = ListResponse(n)
       \/ /\ calls' = Append(calls, [op |-> "search_image_sets",
                                     result |-> "InternalServerException"])
          /\ response' = error_response(500, "Failed to list image sets: "
                                              \o "InternalServerException")
    /\ pc' = "done"
    /\ UNCHANGED <<warm, store, image_set_id, action, locals>>

\* get_image_frame, lines 84-90: the metadata call and the read of the blob
MetadataLookup ==
    /\ pc = "lookup"
    /\ UNCHANGED units
    /\ \E outcome \in Outcomes :
         /\ calls' = Append(calls, [op |-> "get_image_set_metadata",
                                    imageSetId |-> image_set_id,
                                    result |-> outcome])
         /\ IF outcome = "ok"
            THEN /\ \E blob \in BlobsOf(store.doc) : metadata_blob' = blob
                 /\ pc' = "parse"
                 /\ UNCHANGED response
            ELSE /\ response' = IF Caught(outcome)
                                 THEN FailureResponse(outcome, image_set_id)
                                 ELSE response
                 /\ pc' = AfterFailure(outcome)
                 /\ UNCHANGED metadata_blob
    /\ UNCHANGED <<warm, store, image_set_id, action, metadata, frame_info,
                   frame_blob, frame_data, output_format>>

\* get_image_frame, lines 92-110: decompress, parse, pick the frame
MetadataParse ==
    /\ pc = "parse"
    /\ UNCHANGED units
    /\ IF ~Parses(metadata_blob)
       THEN /\ response' = IF Caught("DecodeError")
                            THEN FailureResponse("DecodeError", image_set_id)
                            ELSE response
            /\ pc' = AfterFailure("DecodeError")
            /\ UNCHANGED <<metadata, frame_info>>
       ELSE /\ metadata' = json_loads(metadata_blob)
            /\ frame_info' = extract_frame_info(metadata')
            /\ IF frame_info' = EmptyDict
               THEN /\ response' = error_response(404, "No frames found in image set")
                    /\ pc' = "done"
               ELSE /\ pc' = "fetch"
                    /\ UNCHANGED response
    /\ UNCHANGED <<warm, store, image_set_id, action, metadata_blob, frame_blob,
                   frame_data, output_format, calls>>

\* get_image_frame, lines 113-122: the frame call and the read of the bytes
FrameFetch ==
    /\ pc = "fetch"
    /\ UNCHANGED units
    /\ \E outcome \in Outcomes :
         /\ calls' = Append(calls, [op |-> "get_image_frame",
                                    imageSetId |-> image_set_id,
                                    imageFrameId |-> frame_info.frameId,
                                    result |-> outcome])
         /\ IF outcome = "ok"
            THEN /\ frame_blob' = store.frame
                 /\ frame_data' = store.frame
                 /\ pc' = "sniff"
                 /\ UNCHANGED response
            ELSE /\ response' = IF Caught(outcome)
                                 THEN FailureResponse(outcome, image_set_id)
                                 ELSE response
                 /\ pc' = AfterFailure(outcome)
                 /\ UNCHANGED <<frame_blob, frame_data>>
    /\ UNCHANGED <<warm, store, image_set_id, action, metadata_blob, metadata,
                   frame_info, output_format>>

\* get_image_frame, lines 124-138: the if/elif chain on the leading bytes
SniffFormat ==
    /\ pc = "sniff"
    /\ UNCHANGED units
    /\ output_format' = Sniff(frame_data)
    /\ pc' = IF output_format' = "jp2" THEN "transcode" ELSE "respond"
    /\ UNCHANGED <<warm, store, image_set_id, action, metadata_blob, metadata,
                   frame_info, frame_blob, frame_data, calls, response>>

\* get_image_frame, lines 140-156: the Pillow block of the JP2 branch
Transcode ==
    /\ pc = "transcode"
    /\ UNCHANGED units
    /\ \E pil \in PillowOutcomes :
         LET after == Transcoded(pil, frame_data, output_format)
         IN  /\ frame_data' = after.frame_data
             /\ output_format' = after.output_format
    /\ pc' = "respond"
    /\ UNCHANGED <<warm, store, image_set_id, action, metadata_blob, metadata,
                   frame_info, frame_blob, calls, response>>

\* get_image_frame, lines 158-175: the success envelope is returned
Respond ==
    /\ pc = "respond"
    /\ UNCHANGED units
    /\ response' = FrameResponse(image_set_id, frame_info, frame_blob,
                                 frame_data, output_format)
    /\ pc' = "done"
    /\ UNCHANGED <<warm, store, image_set_id, action, locals, calls>>

Next ==
    \/ Invoke
    \/ ListImageSets
    \/ MetadataLookup
    \/ MetadataParse
    \/ FrameFetch
    \/ SniffFormat
    \/ Transcode
    \/ Respond

Spec == Init /\ [][Next]_vars

(***************************************************************************)
(* What the properties speak of.                                           *)
(***************************************************************************)
\* the invocation has returned
Returned == pc = "done"

\* the invocation was a getFrame request with an identifier
FrameRequest == action # "list" /\ ~Falsy(image_set_id)

\* the invocation has returned the success envelope of get_image_frame
FrameSuccess == Returned /\ FrameRequest /\ response.statusCode = 200

\* the calls of this invocation to the operation op
CallsOf(op) == {k \in 1..Len(calls) : calls[k].op = op}

\* the operations of the object store (existence check, fetch, presigning)
ObjectStoreOps == {"head_object", "get_object", "generate_presigned_url"}

\* the metadata call of this invocation failed
LookupFailed ==
    \E k \in CallsOf("get_image_set_metadata") : calls[k].result # "ok"

\* the metadata call succeeded and its blob did not parse
ParseFailed ==
    /\ pc \notin {"idle", "lookup", "parse", "list"}
    /\ metadata_blob # EmptyDict
    /\ "json" \notin DOMAIN Get(metadata_blob, "deflate", metadata_blob)

\* all the instances of a document, series after series
RECURSIVE InstancesFrom(_, _)
InstancesFrom(series, i) ==
    IF i > Len(series) THEN <<>>
    ELSE Get(series[i], "Instances", <<>>) \o InstancesFrom(series, i + 1)

DocInstances(doc) ==
    InstancesFrom(Get(Get(doc, "Study", EmptyDict), "Series", <<>>), 1)

\* all the frames of a document, instance after instance
RECURSIVE FramesFrom(_, _)
FramesFrom(instances, j) ==
    IF j > Len(instances) THEN <<>>
    ELSE Get(instances[j], "ImageFrames", <<>>) \o FramesFrom(instances, j + 1)

DocFrames(doc) == FramesFrom(DocInstances(doc), 1)

\* the blob parsed to a document with no frame at all
NoFrame ==
    /\ pc \notin {"idle", "lookup", "parse", "list"}
    /\ metadata_blob # EmptyDict
    /\ ~ParseFailed
    /\ DocFrames(metadata) = <<>>

\* the first instance of the first series has a frame
FirstOfFirst(doc) ==
    LET series == Get(Get(doc, "Study", EmptyDict), "Series", <<>>)
        instances == IF series = <<>> THEN <<>>
                     ELSE Get(series[1], "Instances", <<>>)
    IN  IF instances = <<>> THEN <<>>
        ELSE Get(instances[1], "ImageFrames", <<>>)

\* the frame IDs this invocation asked the store for
FetchedIds == {calls[k].imageFrameId : k \in CallsOf("get_image_frame")}

\* the frame ID this invocation used: asked for, or returned as frameId
UsedIds ==
    FetchedIds \cup (IF FrameSuccess THEN {response.body.frameId} ELSE {})

C2_ErrorOnlyAfterObjectStore ==
    (Returned /\ (LookupFailed \/ ParseFailed \/ NoFrame) /\ response.statusCode # 200)
        => \E k \in 1..Len(calls) : calls[k].op \in ObjectStoreOps

(***************************************************************************)
(* C2 amended: when the metadata call fails, the blob does not parse or    *)
(* the document has no frame, the request ends at once with an error and   *)
(* the object store is never probed: 404 when the store reports the image  *)
(* set as not found or the document has no frame, 500 otherwise; the       *)
(* metadata call is the invocation's only collaborator call.               *)
(***************************************************************************)
C2_ErrorWithoutFallback ==
    (Returned /\ (LookupFailed \/ ParseFailed \/ NoFrame))
        => /\ Len(calls) = 1
           /\ calls[1].op = "get_image_set_metadata"
           /\ "error" \in DOMAIN response.body
           /\ response.statusCode =
                 IF calls[1].result = "ResourceNotFoundException" \/ NoFrame
                 THEN 404 ELSE 500

\* a request ended on a blob that did not parse
C2_Witness ==
    /\ Returned
    /\ ParseFailed
    /\ response.statusCode = 500
    /\ calls # <<>>

(***************************************************************************)
(* C3 as stated: when the metadata call fails with AccessDenied the        *)
(* response has status 403, and the request makes no object-store call.    *)
(***************************************************************************)
C3_AccessDeniedIs403 ==
    (/\ Returned
     /\ \E k \in CallsOf("get_image_set_metadata") :
            calls[k].result = "AccessDeniedException")
        => /\ response.statusCode = 403
           /\ \A k \in 1..Len(calls) : calls[k].op \notin ObjectStoreOps

(***************************************************************************)
(* C4 as stated: a request with a missing or empty identifier gets 400 and *)
(* makes no collaborator call.                                             *)
(***************************************************************************)
C4_MissingIdIs400 ==
    (Returned /\ Falsy(image_set_id))
        => response.statusCode = 400 /\ calls = <<>>

(***************************************************************************)
(* C4 amended: a request whose action is not "list" and whose identifier   *)
(* is missing or empty gets 400 and makes no collaborator call.            *)
(***************************************************************************)
C4_MissingIdIs400UnlessList ==
    (pc # "idle" /\ action # "list" /\ Falsy(image_set_id))
        => /\ Returned
           /\ response.statusCode = 400
           /\ calls = <<>>

\* a getFrame request with an empty identifier was rejected
C4_Witness ==
    /\ Returned
    /\ action = "getFrame"
    /\ image_set_id = ""
    /\ response.statusCode = 400

(***************************************************************************)
(* What the properties about the frame bytes speak of.                     *)
(***************************************************************************)
\* what a client makes of the data field: base64 decoding
RECURSIVE b64decode(_)
b64decode(c) ==
    IF Len(c) < 4 THEN <<>>
    ELSE LET b1 == c[1] * 4 + (c[2] \div 16)
             b2 == (c[2] % 16) * 16 + (c[3] \div 4)
             b3 == (c[3] % 4) * 64 + c[4]
         IN  IF c[3] = 64 THEN <<b1>>
             ELSE IF c[4] = 64 THEN <<b1, b2>>
             ELSE <<b1, b2, b3>> \o b64decode(SubSeq(c, 5, Len(c)))

\* the frame bytes have been read and the if/elif chain has run
Sniffed == pc \in {"transcode", "respond"} \/ FrameSuccess

\* the branch the if/elif chain took: the JP2 branch is the only one that
\* leads to the Pillow block, and the only one that may change frame_data
Classification ==
    IF pc = "transcode" \/ frame_data # frame_blob THEN "jp2" ELSE output_format

\* the buffer starts with none of the four signatures
NoSignature(b) == \A sig \in Signatures : ~StartsWith(b, sig)

\* the buffer is one the handler takes for JPEG 2000: FF 4F in front, or
\* 6A 50 at offsets 4 and 5
TakenForJP2(b) ==
    \/ (Len(b) >= 2 /\ b[1] = 255 /\ b[2] = 79)
    \/ (Len(b) >= 6 /\ b[5] = 106 /\ b[6] = 80)

(***************************************************************************)
(* C5: a buffer starting with FF D8 is classified JPEG, one starting with  *)
(* 89 50 4E 47 PNG, one starting with FF 4F FF 51 or with the 12-byte box  *)
(* signature JPEG 2000 (the handler has one tag, jp2, for both); the       *)
(* buffer classified is the one the store returned.  The tests are tried   *)
(* in the order JPEG, PNG, JPEG 2000 and the first match wins: a JPEG or   *)
(* PNG buffer with 6A 50 at offsets 4 and 5 is JPEG or PNG.                *)
(***************************************************************************)
C5_SignaturesClassified ==
    Sniffed =>
        /\ frame_blob = store.frame
        /\ StartsWith(frame_blob, SigJPEG) => Classification = "jpeg"
        /\ StartsWith(frame_blob, SigPNG) => Classification = "png"
        /\ StartsWith(frame_blob, SigJ2KCodestream) => Classification = "jp2"
        /\ StartsWith(frame_blob, SigJP2Box) => Classification = "jp2"

\* a PNG buffer that the JPEG 2000 test matches too was classified PNG
C5_Witness ==
    /\ pc = "respond"
    /\ StartsWith(frame_blob, SigPNG)
    /\ TakenForJP2(frame_blob)
    /\ output_format = "png"

(***************************************************************************)
(* C6 as stated: a buffer that starts with none of the four signatures is  *)
(* answered with format "unknown" and the unchanged bytes, and no          *)
(* transcoding is attempted.                                               *)
(***************************************************************************)
C6_NoSignatureIsUnknown ==
    (FrameSuccess /\ NoSignature(frame_blob))
        => /\ response.body.format = "unknown"
           /\ b64decode(response.body.data) = frame_blob
           /\ Classification # "jp2"

(***************************************************************************)
(* C6 amended: a buffer that starts with none of the four signatures is    *)
(* answered with format "original" and the unchanged bytes, and no         *)
(* transcoding is attempted, unless it starts with FF 4F or has 6A 50 at   *)
(* offsets 4 and 5: such a buffer is handled as JPEG 2000.                 *)
(***************************************************************************)
C6_NoSignatureIsOriginal ==
    (Sniffed /\ NoSignature(frame_blob))
        => IF TakenForJP2(frame_blob)
           THEN Classification = "jp2"
           ELSE /\ pc # "transcode"
                /\ frame_data = frame_blob
                /\ output_format = "original"
                /\ FrameSuccess =>
                      /\ response.body.format = "original"
                      /\ b64decode(response.body.data) = frame_blob

\* the first three bytes of the PNG signature were passed through
C6_Witness ==
    /\ FrameSuccess
    /\ frame_blob = SubSeq(SigPNG, 1, 3)
    /\ response.body.format = "original"

(***************************************************************************)
(* C7: when the frame bytes are JPEG 2000 (codestream or box signature)    *)
(* the request succeeds with status 200 whatever the decoder does: either  *)
(* with format "jp2" and the untouched bytes, or with format "png" and     *)
(* the re-encoded PNG; format "png" never comes with the original bytes.   *)
(***************************************************************************)
C7_JP2DegradesGracefully ==
    (/\ Returned
     /\ \E k \in CallsOf("get_image_frame") : calls[k].result = "ok"
     /\ (StartsWith(frame_blob, SigJ2KCodestream) \/ StartsWith(frame_blob, SigJP2Box)))
        => /\ response.statusCode = 200
           /\ \/ /\ response.body.format = "jp2"
                 /\ b64decode(response.body.data) = frame_blob
              \/ /\ response.body.format = "png"
                 /\ b64decode(response.body.data) = PngOf(frame_blob)

\* a buffer with the box signature came back as jp2, untouched
C7_Witness ==
    /\ FrameSuccess
    /\ StartsWith(frame_blob, SigJP2Box)
    /\ response.body.format = "jp2"
    /\ b64decode(response.body.data) = frame_blob

(***************************************************************************)
(* C8: when the frame bytes are JPEG or PNG, the bytes in the response     *)
(* (the base64-decoded data field) are exactly the bytes the metadata      *)
(* store returned, and the format tag is "jpeg" or "png" respectively.     *)
(***************************************************************************)
C8_JpegPngPassThrough ==
    /\ (FrameSuccess /\ StartsWith(store.frame, SigJPEG))
          => /\ response.body.format = "jpeg"
             /\ b64decode(response.body.data) = store.frame
    /\ (FrameSuccess /\ StartsWith(store.frame, SigPNG))
          => /\ response.body.format = "png"
             /\ b64decode(response.body.data) = store.frame

\* a PNG of five bytes was passed through
C8_Witness ==
    /\ FrameSuccess
    /\ StartsWith(store.frame, SigPNG)
    /\ Len(store.frame) > Len(SigPNG)
    /\ response.body.format = "png"

(***************************************************************************)
(* What the properties about the attributes speak of.                      *)
(***************************************************************************)
HasFrames(instance) == Get(instance, "ImageFrames", <<>>) # <<>>

\* the position, among all the instances of the document, of the first
\* instance that has a frame
OwnerIndex(doc) ==
    LET all == DocInstances(doc)
    IN  CHOOSE k \in 1..Len(all) :
            HasFrames(all[k]) /\ \A j \in 1..(k - 1) : ~HasFrames(all[j])

\* the instance that owns the chosen frame
Owner(doc) == DocInstances(doc)[OwnerIndex(doc)]

\* its DICOM attributes
OwnerTags(doc) == Get(Owner(doc), "DICOM", EmptyDict)

(***************************************************************************)
(* C9: when the instance owning the chosen frame lacks Rows, Columns,      *)
(* BitsAllocated or PhotometricInterpretation, the response carries height *)
(* 512, width 512, bitsAllocated 8 and photometric "MONOCHROME2" for the   *)
(* lacking attributes, and the attribute's own value for the others.       *)
(***************************************************************************)
C9_DefaultsForLackingAttributes ==
    FrameSuccess =>
        LET tags == OwnerTags(metadata)
            lacks(t) == t \notin DOMAIN tags
            body == response.body
        IN  /\ lacks("Rows") => body.height = 512
            /\ lacks("Columns") => body.width = 512
            /\ lacks("BitsAllocated") => body.bitsAllocated = 8
            /\ lacks("PhotometricInterpretation") => body.photometric = "MONOCHROME2"
            /\ ~lacks("Rows") => body.height = tags.Rows
            /\ ~lacks("Columns") => body.width = tags.Columns
            /\ ~lacks("BitsAllocated") => body.bitsAllocated = tags.BitsAllocated
            /\ ~lacks("PhotometricInterpretation")
                  => body.photometric = tags.PhotometricInterpretation

\* the owner lacked Rows and BitsAllocated and had the other two
C9_Witness ==
    /\ FrameSuccess
    /\ DOMAIN OwnerTags(metadata) = {"Columns", "PhotometricInterpretation"}
    /\ response.body.height = 512
    /\ response.body.bitsAllocated = 8
    /\ response.body.width = OwnerTags(metadata).Columns

(***************************************************************************)
(* C10: in a success response width, height, bitsAllocated and photometric *)
(* are those of the instance that owns the chosen frame (width its         *)
(* Columns, height its Rows), and frameId is the ID of that instance's     *)
(* first frame.                                                            *)
(***************************************************************************)
C10_AttributesOfOwningInstance ==
    FrameSuccess =>
        LET tags == OwnerTags(metadata)
            body == response.body
        IN  /\ body.frameId = Get(Owner(metadata).ImageFrames[1], "ID", None)
            /\ "Columns" \in DOMAIN tags => body.width = tags.Columns
            /\ "Rows" \in DOMAIN tags => body.height = tags.Rows
            /\ "BitsAllocated" \in DOMAIN tags
                  => body.bitsAllocated = tags.BitsAllocated
            /\ "PhotometricInterpretation" \in DOMAIN tags
                  => body.photometric = tags.PhotometricInterpretation

\* the owner came after another instance, which had attributes of its own
C10_Witness ==
    /\ FrameSuccess
    /\ OwnerIndex(metadata) > 1
    /\ "Columns" \in DOMAIN OwnerTags(metadata)
    /\ "Columns" \in DOMAIN Get(DocInstances(metadata)[1], "DICOM", EmptyDict)
    /\ DocInstances(metadata)[1].DICOM.Columns # response.body.width
    /\ response.body.width = OwnerTags(metadata).Columns

(***************************************************************************)
(* C11 as stated: the frame chosen from the document always has a          *)
(* non-empty ID, and the frame call is never issued with a missing or      *)
(* empty frame ID.                                                         *)
(***************************************************************************)
C11_FrameIdNeverEmpty ==
    /\ frame_info # EmptyDict => ~Falsy(frame_info.frameId)
    /\ \A id \in FetchedIds : ~Falsy(id)

(***************************************************************************)
(* C12: a blob that parses to a document with no frame (a level of Study,  *)
(* Series, Instances, ImageFrames missing or empty) ends the request with  *)
(* the returned response 404 "No frames found in image set", no exception  *)
(* leaving the handler; a blob that does not parse ends it with a          *)
(* different response, of status 500.                                      *)
(***************************************************************************)
C12_NoFramesIsNotAParseError ==
    /\ NoFrame =>
          /\ Returned
          /\ response = error_response(404, "No frames found in image set")
    /\ (ParseFailed /\ pc # "raised") =>
          /\ Returned
          /\ response.statusCode = 500
          /\ response # error_response(404, "No frames found in image set")

\* a document without a Study was answered with the "no frames" response
C12_Witness ==
    /\ Returned
    /\ NoFrame
    /\ "Study" \notin DOMAIN metadata
    /\ response.statusCode = 404
    /\ response.body.error = "No frames found in image set"

(***************************************************************************)
(* What C13 speaks of.                                                     *)
(***************************************************************************)
\* the blob read in this invocation is the text of the stored document,
\* compressed or not
ReadDocument ==
    metadata_blob \in {JsonText(store.doc), Gzip(JsonText(store.doc))}

\* the blob read in this invocation starts with 1F 8B
ReadGzip == metadata_blob # EmptyDict /\ metadata_blob.head = MagicGzip

\* the request is past the parsing of the blob
Parsed == pc \notin {"idle", "list", "lookup", "parse", "raised"}

(***************************************************************************)
(* C13: handling the gzip-compressed blob of a document gives what         *)
(* handling its uncompressed blob gives.  Whichever of the two was read,   *)
(* the parsed metadata is the document, the chosen frame is the one        *)
(* extract_frame_info picks in the document, a document without frames     *)
(* gets the "no frames" response, and a success response carries the IDs   *)
(* and attributes of the document's first frame and of its instance.       *)
(***************************************************************************)
C13_GzipSameAsPlain ==
    (ReadDocument /\ Parsed) =>
        /\ metadata = store.doc
        /\ frame_info = extract_frame_info(store.doc)
        /\ DocFrames(store.doc) = <<>> =>
              response = error_response(404, "No frames found in image set")
        /\ FrameSuccess =>
              /\ response.body.frameId = Get(DocFrames(store.doc)[1], "ID", None)
              /\ response.body.width = Get(OwnerTags(store.doc), "Columns", 512)
              /\ response.body.height = Get(OwnerTags(store.doc), "Rows", 512)
              /\ b64decode(response.body.data) \in {store.frame, PngOf(store.frame)}

\* a frame was returned from a compressed blob
C13_Witness ==
    /\ FrameSuccess
    /\ ReadGzip
    /\ ReadDocument
    /\ metadata = store.doc
    /\ ~Falsy(response.body.frameId)
    /\ response.body.frameId = Get(DocFrames(store.doc)[1], "ID", None)

(***************************************************************************)
(* What the properties about error messages speak of.                      *)
(***************************************************************************)
\* the text msg contains the text part
Contains(msg, part) ==
    \E i \in 1..(Len(msg) - Len(part) + 1) :
        SubSeq(msg, i, i + Len(part) - 1) = part

(***************************************************************************)
(* C14 as stated: when the blob does not parse, the request ends with a    *)
(* parse error that carries a preview of the raw content, and the text of  *)
(* the parser's own exception does not reach the caller.                   *)
(***************************************************************************)
C14_ParseErrorCarriesPreview ==
    (Returned /\ ParseFailed) =>
        /\ "error" \in DOMAIN response.body
        /\ \E f \in DOMAIN response.body : f \in {"raw", "preview"}
        /\ ~Contains(response.body.error, "DecodeError")

(***************************************************************************)
(* The older handler, src/lambda_handlers/get_presigned_url/handler.py:    *)
(* it answers a request with a presigned URL of the image set's DICOM file *)
(* in the bucket.  It uses pc, image_set_id, calls and response as the     *)
(* proxy handler does and leaves the other variables alone.                *)
(***************************************************************************)
\* a queryStringParameters that is present and null
NullParams == [null |-> TRUE]

\* the events of the older handler: line 18 has no `or {}`, so a null
\* queryStringParameters is not the same as an empty one
PresignEvents == Events \cup {[queryStringParameters |-> NullParams]}

\* the values of an environment variable: unset, or set
EnvValues(v) == {None, v}

\* how generate_presigned_url ends: botocore raises ParamValidationError,
\* which is no ClientError, for a Bucket that is None
PresignOutcomes(bucket_name) ==
    IF bucket_name = None THEN {"ParamValidationError"}
    ELSE {"ok", "ClientError"}

\* mutant: the key is built under upload/
PresignKey_Upload(id) == "upload/" \o id \o ".dcm"

\* line 47: file_key
PresignKey(id) == "input/" \o id \o ".dcm"

\* lines 49-53: the URL signed for the key, valid for an hour
PresignedUrl(bucket_name, file_key) ==
    "https://" \o bucket_name \o ".s3.amazonaws.com/" \o file_key
        \o "?X-Amz-Expires=3600"

\* lines 16-26: a new invocation, up to the check of the parameters
PresignInvoke ==
    /\ pc \in {"idle", "done", "raised"}
    /\ UNCHANGED units
    /\ \E event \in PresignEvents, datastore_id \in EnvValues("ds") :
         LET query_params == Get(event, "queryStringParameters", EmptyDict)
             id == Get(query_params, "imageSetId", None)
         IN  IF "null" \in DOMAIN query_params
             THEN \* None.get raises AttributeError, which line 64 lets pass
                  /\ image_set_id' = None
                  /\ response' = EmptyDict
                  /\ pc' = "raised"
             ELSE /\ image_set_id' = id
                  /\ IF Falsy(id) \/ Falsy(datastore_id)
                     THEN /\ response' = [statusCode |-> 400,
                                          body |-> [error |-> "Missing imageSetId or DATASTORE_ID"]]
                          /\ pc' = "done"
                     ELSE /\ response' = EmptyDict
                          /\ pc' = "presign"
    /\ calls' = <<>>
    /\ warm' = (pc # "idle")
    /\ UNCHANGED <<store, action, locals>>

\* lines 44-69: the key is built and signed
Presign ==
    /\ pc = "presign"
    /\ UNCHANGED units
    /\ \E bucket_name \in EnvValues("bucket") :
         \E outcome \in PresignOutcomes(bucket_name) :
            LET file_key == PresignKey(image_set_id)
            IN  /\ calls' = Append(calls, [op |-> "generate_presigned_url",
                                           Bucket |-> bucket_name,
                                           Key |-> file_key,
                                           result |-> outcome])
                /\ CASE outcome = "ok" ->
                          /\ response' = [statusCode |-> 200,
                                          body |-> [url |-> PresignedUrl(bucket_name, file_key)]]
                          /\ pc' = "done"
                     [] outcome = "ClientError" ->
                          /\ response' = [statusCode |-> 500,
                                          body |-> [error |-> outcome]]
                          /\ pc' = "done"
                     [] OTHER ->
                          /\ UNCHANGED response
                          /\ pc' = "raised"
    /\ UNCHANGED <<warm, store, image_set_id, action, locals>>

PresignNext ==
    \/ PresignInvoke
    \/ Presign

PresignSpec == Init /\ [][PresignNext]_vars

(***************************************************************************)
(* What C15 speaks of.                                                     *)
(***************************************************************************)
IsExistenceCheck(c) == c.op = "head_object"

\* the keys whose existence this invocation checked, in order
CheckedKeys ==
    LET checks == SelectSeq(calls, IsExistenceCheck)
    IN  [k \in 1..Len(checks) |-> checks[k].Key]

\* the candidates up to the first one the bucket holds, or all of them
KeysUpToFirstHeld(objects, id) ==
    LET keys == ObjectKeys(id)
        held == {k \in 1..Len(keys) : keys[k] \in objects}
        last == IF held = {} THEN Len(keys)
                ELSE CHOOSE k \in held : \A h \in held : k <= h
    IN  SubSeq(keys, 1, last)

\* the older handler has gone past the check of its parameters
KeyWanted == pc \notin {"idle", "presign"} /\ calls # <<>>

(***************************************************************************)
(* C15 as stated: for an identifier, the existence of input/id.dcm,        *)
(* input/id.DCM, upload/id.dcm, upload/id.DCM is checked in that order up  *)
(* to the first key that exists, which is the key used; not found is       *)
(* reported after all four were checked and none exists.                   *)
(***************************************************************************)
C15_ProbesFourKeysInOrder ==
    KeyWanted =>
        /\ CheckedKeys = KeysUpToFirstHeld(store.objects, image_set_id)
        /\ LET last == CheckedKeys[Len(CheckedKeys)]
           IN  IF last \in store.objects
               THEN \A k \in CallsOf("generate_presigned_url") : calls[k].Key = last
               ELSE Returned /\ response.statusCode = 404

(***************************************************************************)
(* C15 amended: for an identifier, the handler builds the one key          *)
(* input/id.dcm and has a URL signed for it; it checks the existence of no *)
(* key, tries no other key, and never reports not found: the answer is 200 *)
(* with the URL of that key whether the bucket holds it or not, or 500     *)
(* when signing fails with a client error.                                 *)
(***************************************************************************)
C15_OneKeyNoExistenceCheck ==
    KeyWanted =>
        /\ Len(calls) = 1
        /\ calls[1].op = "generate_presigned_url"
        /\ calls[1].Key = ObjectKeys(image_set_id)[1]
        /\ CheckedKeys = <<>>
        /\ Returned =>
              /\ response.statusCode \in {200, 500}
              /\ response.statusCode = 200 <=> calls[1].result = "ok"
              /\ response.statusCode = 200 =>
                    Contains(response.body.url, ObjectKeys(image_set_id)[1])

\* a URL was returned for input/abc.dcm, which the bucket does not hold, while
\* it holds upload/abc.DCM
C15_Witness ==
    /\ Returned
    /\ KeyWanted
    /\ response.statusCode = 200
    /\ Contains(response.body.url, "input/abc.dcm")
    /\ store.objects = {"upload/abc.DCM"}

(***************************************************************************)
(* What C16 and C17 speak of.                                              *)
(***************************************************************************)
\* the metadata store has no frame for the identifier: it reports the image
\* set as not found, or its document has no frame
StoreHasNoFrame ==
    \/ \E k \in CallsOf("get_image_set_metadata") :
          calls[k].result = "ResourceNotFoundException"
    \/ NoFrame

\* the bucket holds the DICOM file of the identifier under one of its keys
BucketHasObject ==
    \E k \in DOMAIN ObjectKeys(image_set_id) :
        ObjectKeys(image_set_id)[k] \in store.objects

(***************************************************************************)
(* C16 as stated: when the metadata store has no frame for the identifier  *)
(* and the bucket holds its file, the response is a success with source    *)
(* "object-store", a null frameId and the bytes of the object as they are. *)
(***************************************************************************)
C16_ObjectStoreFallback ==
    (Returned /\ FrameRequest /\ StoreHasNoFrame /\ BucketHasObject) =>
        /\ response.statusCode = 200
        /\ Get(response.body, "source", None) = "object-store"
        /\ Get(response.body, "frameId", "f") = None

(***************************************************************************)
(* C16 amended: when the metadata store has no frame for the identifier,   *)
(* the response is 404 even if the bucket holds the file; the bucket is    *)
(* not read and no response has source "object-store".                     *)
(***************************************************************************)
C16_NoFrameIs404DespiteObject ==
    /\ (Returned /\ FrameRequest /\ StoreHasNoFrame /\ BucketHasObject) =>
          /\ response.statusCode = 404
          /\ "error" \in DOMAIN response.body
          /\ \A k \in 1..Len(calls) : calls[k].op \notin ObjectStoreOps
    /\ (Returned /\ "source" \in DOMAIN response.body) =>
          response.body.source = "healthimaging"

\* a document without frames was answered with 404 although the bucket holds
\* the file
C16_Witness ==
    /\ Returned
    /\ FrameRequest
    /\ NoFrame
    /\ "input/abc.dcm" \in store.objects
    /\ response.statusCode = 404

(***************************************************************************)
(* C17 as stated: when neither the metadata store nor the bucket has       *)
(* anything for the identifier, the response has status 404 and its error  *)
(* message contains the identifier.                                        *)
(***************************************************************************)
C17_NotFoundNamesIdentifier ==
    (Returned /\ FrameRequest /\ StoreHasNoFrame /\ ~BucketHasObject) =>
        /\ response.statusCode = 404
        /\ Contains(response.body.error, image_set_id)

(***************************************************************************)
(* C17 amended: when neither the metadata store nor the bucket has         *)
(* anything for the identifier, the response has status 404; its error     *)
(* message contains the identifier when the store reported the image set   *)
(* as not found, and is "No frames found in image set", without the        *)
(* identifier, when the document has no frame.                             *)
(***************************************************************************)
C17_NotFoundIs404 ==
    (Returned /\ FrameRequest /\ StoreHasNoFrame /\ ~BucketHasObject) =>
        /\ response.statusCode = 404
        /\ IF NoFrame
           THEN /\ response.body.error = "No frames found in image set"
                /\ ~Contains(response.body.error, image_set_id)
           ELSE Contains(response.body.error, image_set_id)

\* the store reported the image set as not found, the bucket is empty, and
\* the 404 names the identifier
C17_Witness ==
    /\ Returned
    /\ FrameRequest
    /\ LookupFailed
    /\ StoreHasNoFrame
    /\ store.objects = {}
    /\ response.statusCode = 404
    /\ Contains(response.body.error, "abc")

(***************************************************************************)
(* What C18 speaks of.                                                     *)
(***************************************************************************)
\* r is a response envelope: a success envelope, or an error with a status
IsEnvelope(r) ==
    /\ DOMAIN r = {"statusCode", "body"}
    /\ \/ r.statusCode = 200 /\ "source" \in DOMAIN r.body
                             /\ "error" \notin DOMAIN r.body
       \/ r.statusCode \in {400, 404, 500} /\ DOMAIN r.body = {"error"}

\* a step of the invocation under way
HandlerStep ==
    \/ ListImageSets
    \/ MetadataLookup
    \/ MetadataParse
    \/ FrameFetch
    \/ SniffFormat
    \/ Transcode
    \/ Respond

(***************************************************************************)
(* C18: no failure of the metadata call, of the parsing, of the frame call *)
(* or of the transcoding leaves the handler as an exception.  An           *)
(* invocation never stands at a raised exception; until it returns it has  *)
(* returned nothing and can take a step; and when it has returned, what it *)
(* returned is one envelope, a success or an error with a status code.     *)
(***************************************************************************)
C18_NoExceptionEscapes ==
    /\ pc # "raised"
    /\ pc \notin {"idle", "done"} => (response = EmptyDict /\ ENABLED HandlerStep)
    /\ Returned => IsEnvelope(response)

\* the frame call failed after the metadata call and the parsing had
\* succeeded, and the invocation returned an error envelope
C18_Witness ==
    /\ Returned
    /\ FrameRequest
    /\ Len(calls) = 2
    /\ calls[2].result = "InternalServerException"
    /\ IsEnvelope(response)
    /\ response.statusCode = 500

(***************************************************************************)
(* What C19 speaks of.                                                     *)
(***************************************************************************)
\* the operations this invocation asked of its collaborators, in order
OpsIssued == [k \in 1..Len(calls) |-> calls[k].op]

(***************************************************************************)
(* C19 as stated: within a getFrame request each collaborator operation is *)
(* issued at most once, the metadata call before the frame call; the blob  *)
(* is parsed only after the metadata call returned; the frame call is      *)
(* issued only after the parsing produced a frame ID; and the bytes are    *)
(* sniffed and transcoded only after the frame call returned.              *)
(***************************************************************************)
C19_StepsGatedInOrder ==
    (FrameRequest /\ pc # "idle") =>
        /\ OpsIssued \in {<<>>, <<"get_image_set_metadata">>,
                          <<"get_image_set_metadata", "get_image_frame">>}
        /\ (metadata # EmptyDict \/ frame_info # EmptyDict \/ ParseFailed) =>
              (calls # <<>> /\ calls[1].result = "ok")
        /\ CallsOf("get_image_frame") # {} =>
              /\ calls[1].result = "ok"
              /\ frame_info # EmptyDict
              /\ ~Falsy(frame_info.frameId)
              /\ calls[2].imageFrameId = frame_info.frameId
        /\ (output_format # None \/ frame_data # <<>>) =>
              (Len(calls) = 2 /\ calls[2].result = "ok")

(***************************************************************************)
(* What C20 speaks of.                                                     *)
(***************************************************************************)
\* the names of get_image_frame from the n-th on are not bound, in the order
\* in which the function binds them
UnboundFrom(n) ==
    /\ n <= 1 => metadata_blob = EmptyDict
    /\ n <= 2 => (metadata = EmptyDict /\ frame_info = EmptyDict)
    /\ n <= 3 => (frame_blob = <<>> /\ frame_data = <<>>)
    /\ n <= 4 => output_format = None

\* every call of this invocation that names an image set names its own
OwnCalls ==
    \A k \in 1..Len(calls) :
        "imageSetId" \in DOMAIN calls[k] => calls[k].imageSetId = image_set_id

\* nothing of an earlier request is left where this request could read it,
\* and what it has returned comes from its own parameters and replies
OwnStateOnly ==
    /\ OwnCalls
    /\ pc \in {"list", "lookup"} =>
          (UnboundFrom(1) /\ calls = <<>> /\ response = EmptyDict)
    /\ pc = "parse" => (UnboundFrom(2) /\ Len(calls) = 1)
    /\ pc = "fetch" => (UnboundFrom(3) /\ Len(calls) = 1)
    /\ pc = "sniff" => (UnboundFrom(4) /\ Len(calls) = 2)
    /\ (Returned /\ ~FrameRequest) => UnboundFrom(1)
    /\ (Returned /\ FrameRequest) =>
          /\ Len(calls) = 1 =>
                UnboundFrom(IF calls[1].result = "ok" THEN 2 ELSE 1)
                  \/ (frame_info = EmptyDict /\ UnboundFrom(3))
          /\ LookupFailed =>
                response = FailureResponse(calls[1].result, image_set_id)
          /\ FrameSuccess =>
                /\ response.body.imageSetId = image_set_id
                /\ response.body.frameId = calls[2].imageFrameId
                /\ metadata_blob \in BlobsOf(store.doc)
                /\ frame_blob = store.frame
                /\ b64decode(response.body.data) \in {frame_blob, PngOf(frame_blob)}

C21_ListBypassesResolution ==
    (pc # "idle" /\ action = "list") =>
        /\ pc \in {"list", "done"}
        /\ UnboundFrom(1)
        /\ \A k \in 1..Len(calls) : calls[k].op = "search_image_sets"
        /\ Returned =>
              /\ Len(calls) = 1
              /\ response.statusCode = 200 <=> calls[1].result = "ok"
              /\ response.statusCode = 200 =>
                    /\ response.body.count = calls[1].summaries
                    /\ Len(response.body.imageSets) = response.body.count

\* a list request without identifier was answered with the summaries
C21_Witness ==
    /\ Returned
    /\ action = "list"
    /\ image_set_id = None
    /\ response.statusCode = 200
    /\ response.body.count = MaxSets
    /\ Len(response.body.imageSets) = MaxSets

(***************************************************************************)
(* healthimaging/client.py.  Its functions are applied to arguments drawn  *)
(* when the specification starts: _extract_frame_ids and the proxy         *)
(* handler's extract_frame_info to one metadata document, create_client to *)
(* an argument and an environment.                                         *)
(***************************************************************************)
\* the variables of the two get_presigned_url handlers
proxy == <<pc, store, image_set_id, action, metadata_blob, metadata, frame_info,
           frame_blob, frame_data, output_format, calls, response, warm>>

\* the get_presigned_url handlers are not invoked
ProxyIdle ==
    /\ pc = "idle"
    /\ store = [doc |-> SampleDoc, frame |-> SampleBuffer, objects |-> {}]
    /\ image_set_id = None
    /\ action = None
    /\ metadata_blob = EmptyDict
    /\ metadata = EmptyDict
    /\ frame_info = EmptyDict
    /\ frame_blob = <<>>
    /\ frame_data = <<>>
    /\ output_format = None
    /\ calls = <<>>
    /\ response = EmptyDict
    /\ warm = FALSE

\* mutant: only the first frame of an instance is taken
IdsOfFrames_FirstOnly(frames, k) ==
    IF k > Len(frames) THEN <<>> ELSE <<Get(frames[k], "ID", None)>>

\* line 319-320: the innermost loop, from the k-th frame on
RECURSIVE IdsOfFrames(_, _)
IdsOfFrames(frames, k) ==
    IF k > Len(frames) THEN <<>>
    ELSE <<Get(frames[k], "ID", None)>> \o IdsOfFrames(frames, k + 1)

\* line 318: the loop over the instances of a series, from the j-th on
RECURSIVE IdsOfInstances(_, _)
IdsOfInstances(instances, j) ==
    IF j > Len(instances) THEN <<>>
    ELSE IdsOfFrames(Get(instances[j], "ImageFrames", <<>>), 1)
             \o IdsOfInstances(instances, j + 1)

\* line 317: the loop over the series, from the i-th on
RECURSIVE IdsOfSeries(_, _)
IdsOfSeries(series, i) ==
    IF i > Len(series) THEN <<>>
    ELSE IdsOfInstances(Get(series[i], "Instances", <<>>), 1)
             \o IdsOfSeries(series, i + 1)

\* ImageStreamingClient._extract_frame_ids(metadata)
extract_frame_ids(metadata_) ==
    LET study == Get(metadata_, "Study", EmptyDict)
    IN  IdsOfSeries(Get(study, "Series", <<>>), 1)

\* the datastore_id argument of create_client, None when it is not passed
PassedIds == {None, "", "explicit-id"}

\* HEALTHIMAGING_DATASTORE_ID, None when it is unset
EnvIds == {None, "", "env-datastore-id"}

\* mutant: the environment is preferred to the argument
ResolvedId_EnvFirst(passed, env) == IF ~Falsy(env) THEN env ELSE passed

\* lines 355-356: the datastore ID create_client goes on with
ResolvedId(passed, env) == IF passed = None THEN env ELSE passed

\* lines 355-360: create_client raises, or returns a client with the ID
create_client(passed, env) ==
    IF passed = None /\ Falsy(ResolvedId(passed, env))
    THEN [outcome |-> "ValueError", constructed |-> <<>>]
    ELSE [outcome |-> "returned", constructed |-> <<ResolvedId(passed, env)>>]

ClientInit ==
    /\ ProxyIdle
    /\ waiter = [pc |-> "idle"]
    /\ jwks_cache = <<>>
    /\ authorizer = [pc |-> "idle"]
    /\ ingestion = [pc |-> "idle"]
    /\ evaluation = [pc |-> "idle"]
    /\ \E doc \in Docs :
         client = [metadata |-> doc,
                   extracted |-> FALSE, frame_ids |-> <<>>,
                   chosen |-> FALSE, frame_info |-> EmptyDict,
                   passed |-> None, env |-> None,
                   outcome |-> "none", constructed |-> <<>>]

\* _extract_frame_ids is applied to the document
ExtractFrameIds ==
    /\ ~client.extracted
    /\ client' = [client EXCEPT !.extracted = TRUE,
                                !.frame_ids = extract_frame_ids(client.metadata)]
    /\ UNCHANGED <<proxy, waiter, jwks_cache, authorizer, ingestion, evaluation>>

\* the proxy handler's extract_frame_info is applied to the document
ExtractFrameInfo ==
    /\ ~client.chosen
    /\ client' = [client EXCEPT !.chosen = TRUE,
                                !.frame_info = extract_frame_info(client.metadata)]
    /\ UNCHANGED <<proxy, waiter, jwks_cache, authorizer, ingestion, evaluation>>

\* create_client is called
CreateClient ==
    /\ \E passed \in PassedIds, env \in EnvIds :
         LET made == create_client(passed, env)
         IN  client' = [client EXCEPT !.passed = passed, !.env = env,
                                      !.outcome = made.outcome,
                                      !.constructed = made.constructed]
    /\ UNCHANGED <<proxy, waiter, jwks_cache, authorizer, ingestion, evaluation>>

ClientNext ==
    \/ ExtractFrameIds
    \/ ExtractFrameInfo
    \/ CreateClient

ClientSpec == ClientInit /\ [][ClientNext]_vars

(***************************************************************************)
(* C22: _extract_frame_ids returns the ID of every frame of every instance *)
(* of every series, each once and in document order: the result is as long *)
(* as the document has frames, its k-th element is the ID of the           *)
(* document's k-th frame, and where the frames' IDs differ no ID is        *)
(* repeated; a document lacking Study, Series, Instances or ImageFrames    *)
(* gives the empty list.                                                   *)
(***************************************************************************)
C22_EveryFrameIdInOrder ==
    client.extracted =>
        LET ids == client.frame_ids
            frames == DocFrames(client.metadata)
        IN  /\ Len(ids) = Len(frames)
            /\ \A k \in 1..Len(frames) : ids[k] = Get(frames[k], "ID", None)
            /\ client.metadata \in ShapeDocs =>
                  Cardinality({ids[k] : k \in 1..Len(ids)}) = Len(ids)
            /\ client.metadata \in SparseDocs /\ frames = <<>> => ids = <<>>

\* the IDs of a document with several series, instances and frames were
\* extracted
C22_Witness ==
    /\ client.extracted
    /\ client.metadata = DocOfShape(<<<<MaxFrames, MaxFrames>>, <<0, MaxFrames>>>>)
    /\ Len(client.frame_ids) = 3 * MaxFrames
    /\ client.frame_ids[1] = FrameIdAt(1, 1, 1)
    /\ client.frame_ids[3 * MaxFrames] = FrameIdAt(2, 2, MaxFrames)

(***************************************************************************)
(* C23: create_client uses the datastore ID it is passed in preference to  *)
(* the environment; when none is passed it uses HEALTHIMAGING_DATASTORE_ID;*)
(* and when none is passed and the variable is unset or empty it raises    *)
(* ValueError and constructs no client.                                    *)
(***************************************************************************)
C23_ExplicitThenEnvironment ==
    client.outcome # "none" =>
        /\ client.passed # None =>
              (client.outcome = "returned" /\ client.constructed = <<client.passed>>)
        /\ (client.passed = None /\ client.env \notin {None, ""}) =>
              (client.outcome = "returned" /\ client.constructed = <<client.env>>)
        /\ (client.passed = None /\ client.env \in {None, ""}) =>
              (client.outcome = "ValueError" /\ client.constructed = <<>>)

\* an ID was passed while the variable was set, and the client has the ID
\* that was passed
C23_Witness ==
    /\ client.outcome = "returned"
    /\ client.passed = "explicit-id"
    /\ client.env = "env-datastore-id"
    /\ client.constructed = <<"explicit-id">>

(***************************************************************************)
(* HealthImagingClient.wait_for_import_job.  The clock is the value        *)
(* time.time() returns; it advances while a poll is under way (possibly    *)
(* not at all) and while the call sleeps (by one second at least).         *)
(***************************************************************************)
\* the largest max_wait_time, in seconds
MaxWait == 2
\* the most the clock advances during one poll or one sleep, in seconds
MaxTick == 2

\* the jobStatus values of an import job
JobStatuses == {"SUBMITTED", "IN_PROGRESS", "COMPLETED", "FAILED"}

\* how get_dicom_import_job ends: with a job of some status, or raising
PollReplies == JobStatuses \cup {"ClientError"}

\* line 256: the job is finished
Finished(status) == status \in {"COMPLETED", "FAILED"}

\* mutant: the wait gives up when the limit is reached, not when it is passed
TimedOut_AtLimit(elapsed, max_wait_time) == elapsed >= max_wait_time

\* line 260: the wait has lasted too long
TimedOut(elapsed, max_wait_time) == elapsed > max_wait_time

WaitInit ==
    /\ ProxyIdle
    /\ client = [pc |-> "idle"]
    /\ jwks_cache = <<>>
    /\ authorizer = [pc |-> "idle"]
    /\ ingestion = [pc |-> "idle"]
    /\ evaluation = [pc |-> "idle"]
    /\ waiter = [pc |-> "idle", max_wait_time |-> 0, start_time |-> 0,
                 now |-> 0, polled |-> <<>>, outcome |-> "none"]

\* lines 231-251: the call, up to start_time = time.time()
WaitCall ==
    /\ waiter.pc \in {"idle", "ended"}
    /\ \E m \in 0..MaxWait :
         waiter' = [pc |-> "poll", max_wait_time |-> m, start_time |-> 0,
                    now |-> 0, polled |-> <<>>, outcome |-> "none"]
    /\ UNCHANGED <<proxy, client, jwks_cache, authorizer, ingestion, evaluation>>

\* lines 253-261: one poll, the test of the status and the test of the time
Poll ==
    /\ waiter.pc = "poll"
    /\ \E reply \in PollReplies, d \in 0..MaxTick :
         LET now == waiter.now + d
             elapsed == now - waiter.start_time
             seen == Append(waiter.polled, [status |-> reply, elapsed |-> elapsed])
         IN  waiter' =
               IF reply = "ClientError"
               THEN [waiter EXCEPT !.pc = "ended", !.now = now, !.polled = seen,
                                   !.outcome = "ClientError"]
               ELSE IF Finished(reply)
               THEN [waiter EXCEPT !.pc = "ended", !.now = now, !.polled = seen,
                                   !.outcome = "returned"]
               ELSE IF TimedOut(elapsed, waiter.max_wait_time)
               THEN [waiter EXCEPT !.pc = "ended", !.now = now, !.polled = seen,
                                   !.outcome = "TimeoutError"]
               ELSE [waiter EXCEPT !.pc = "sleep", !.now = now, !.polled = seen]
    /\ UNCHANGED <<proxy, client, jwks_cache, authorizer, ingestion, evaluation>>

\* lines 263-264: time.sleep(poll_interval)
Sleep ==
    /\ waiter.pc = "sleep"
    /\ \E d \in 1..MaxTick :
         waiter' = [waiter EXCEPT !.pc = "poll", !.now = waiter.now + d]
    /\ UNCHANGED <<proxy, client, jwks_cache, authorizer, ingestion, evaluation>>

WaitNext ==
    \/ WaitCall
    \/ Poll
    \/ Sleep

\* the thread that called wait_for_import_job keeps running: a poll that can
\* be made is made, and a sleep ends
WaitSpec == WaitInit /\ [][WaitNext]_vars /\ WF_vars(Poll) /\ WF_vars(Sleep)

(***************************************************************************)
(* What C24 speaks of.                                                     *)
(***************************************************************************)
\* the last poll of the call
LastPoll == waiter.polled[Len(waiter.polled)]

\* every poll before the last one found the job unfinished and the limit
\* not passed
EarlierPollsWent ==
    \A k \in 1..(Len(waiter.polled) - 1) :
        /\ waiter.polled[k].status \in JobStatuses \ {"COMPLETED", "FAILED"}
        /\ waiter.polled[k].elapsed <= waiter.max_wait_time

\* what holds of a call that has ended with a job or with TimeoutError
EndedAsClaimed ==
    /\ Len(waiter.polled) >= 1
    /\ EarlierPollsWent
    /\ waiter.outcome = "returned" => LastPoll.status \in {"COMPLETED", "FAILED"}
    /\ waiter.outcome = "TimeoutError" =>
          /\ LastPoll.status \in JobStatuses \ {"COMPLETED", "FAILED"}
          /\ LastPoll.elapsed > waiter.max_wait_time

(***************************************************************************)
(* C24 as stated: the call polls at least once, returns a job only when    *)
(* its status is COMPLETED or FAILED, raises TimeoutError at the first     *)
(* poll at which more than max_wait_time seconds have elapsed, and always  *)
(* ends in one of these two ways.                                          *)
(***************************************************************************)
C24_ReturnsOrTimesOut ==
    /\ [](waiter.pc = "ended" =>
            (waiter.outcome \in {"returned", "TimeoutError"} /\ EndedAsClaimed))
    /\ (waiter.pc = "poll") ~> (waiter.pc = "ended")

(***************************************************************************)
(* C24 amended: the call polls at least once, returns a job only when its  *)
(* status is COMPLETED or FAILED, raises TimeoutError at the first poll at *)
(* which more than max_wait_time seconds have elapsed, and always ends in  *)
(* one of these two ways or with the exception a poll raised.              *)
(***************************************************************************)
C24_ReturnsTimesOutOrPollRaises ==
    /\ [](waiter.pc = "ended" =>
            /\ waiter.outcome \in {"returned", "TimeoutError", "ClientError"}
            /\ EndedAsClaimed
            /\ waiter.outcome = "ClientError" <=> LastPoll.status = "ClientError")
    /\ (waiter.pc = "poll") ~> (waiter.pc = "ended")

\* the wait was given up at its third poll, the limit not being passed at the
\* first two
C24_Witness ==
    /\ waiter.pc = "ended"
    /\ waiter.outcome = "TimeoutError"
    /\ Len(waiter.polled) = 3
    /\ waiter.polled[2].elapsed = waiter.max_wait_time
    /\ LastPoll.elapsed > waiter.max_wait_time

(***************************************************************************)
(* The OIDC authorizer, lambda_handlers/oidc_authorizer/handler.py.  The   *)
(* module's _jwks_cache outlives the invocations of the execution          *)
(* environment.  A token is described by what python-jose makes of it.     *)
(***************************************************************************)
\* a string that is no JWT: get_unverified_headers raises JWTError
Malformed == [wellformed |-> FALSE]

\* the tokens: the kid of the header, how jwt.decode ends, and token_use
Tokens ==
    {Malformed}
    \cup {[wellformed |-> TRUE, kid |-> k, decode |-> "ok", token_use |-> "access"] :
            k \in {None, "k1", "k2", "k9"}}
    \cup {[wellformed |-> TRUE, kid |-> "k1", decode |-> d, token_use |-> "id"] :
            d \in {"ok", "ExpiredSignatureError", "JWTClaimsError", "JWTError"}}
    \cup {[wellformed |-> TRUE, kid |-> "k1", decode |-> "ok", token_use |-> u] :
            u \in {"access", "id", "refresh", None}}

\* the accessToken of an event: absent, null, or a string made of a prefix
\* and of a token, EmptyDict being the empty text
AccessTokens ==
    {[kind |-> "absent"], [kind |-> "null"]}
    \cup {[kind |-> "str", prefix |-> p, token |-> t] :
            <<p, t>> \in {"", "Bearer ", "bearer "} \X (Tokens \cup {EmptyDict})}

\* lines 127-131: access_token after the removal of the prefix 'Bearer '
StrippedToken(a) ==
    IF a.kind = "absent" THEN EmptyDict
    ELSE IF a.prefix \in {"", "Bearer "} THEN a.token
    ELSE Malformed

\* the key sets the JWKS endpoint may serve
JwksDocs ==
    {EmptyDict, [keys |-> <<>>], [keys |-> <<[kid |-> "k1"]>>],
     [keys |-> <<[kid |-> "k1"], [kid |-> "k2"]>>]}

\* how the request of line 37-38 ends: with a key set, or raising
FetchOutcomes == {"ok", "URLError", "JSONDecodeError"}

\* DICOMWEB_ROLE_ARN
RoleArn == "arn:aws:iam::role/dicomweb"

\* mutant: token_use is not looked at
ValidateOutcome_AnyUse(token, jwks) ==
    IF ~token.wellformed THEN "JWTError"
    ELSE IF Falsy(token.kid) THEN "ValueError"
    ELSE IF \A k \in DOMAIN Get(jwks, "keys", <<>>) : jwks.keys[k].kid # token.kid
    THEN "ValueError"
    ELSE token.decode

\* lines 47-58 and 76-90: how validate_token ends once get_jwks has
\* returned jwks: "ok", or the exception it raises
ValidateOutcome(token, jwks) ==
    IF ~token.wellformed THEN "JWTError"
    ELSE IF Falsy(token.kid) THEN "ValueError"
    ELSE IF \A k \in DOMAIN Get(jwks, "keys", <<>>) : jwks.keys[k].kid # token.kid
    THEN "ValueError"
    ELSE IF token.decode # "ok" THEN token.decode
    ELSE IF token.token_use \notin {"access", "id"} THEN "ValueError"
    ELSE "ok"

\* lines 145-154: the response of lambda_handler
AuthResponse(outcome) ==
    IF outcome = "ok" THEN [isAuthorized |-> TRUE, iamRoleArn |-> RoleArn]
    ELSE [isAuthorized |-> FALSE]

\* mutant: what was fetched is not kept
CacheAfterFetch_NotKept(fetch, doc) == <<>>

\* lines 37-38: _jwks_cache after the request: assigned when the body was
\* read and parsed, left as it was when either raised
CacheAfterFetch(fetch, doc) == IF fetch = "ok" THEN <<doc>> ELSE <<>>

AuthInit ==
    /\ ProxyIdle
    /\ client = [pc |-> "idle"]
    /\ waiter = [pc |-> "idle"]
    /\ ingestion = [pc |-> "idle"]
    /\ evaluation = [pc |-> "idle"]
    /\ jwks_cache = <<>>
    /\ authorizer = [pc |-> "idle", accessToken |-> [kind |-> "absent"],
                     token |-> EmptyDict, jwks_call |-> EmptyDict,
                     jwks |-> EmptyDict, outcome |-> "none",
                     response |-> EmptyDict]

\* lines 123-137: a new invocation, up to the test of the token
AuthInvoke ==
    /\ authorizer.pc \in {"idle", "done"}
    /\ \E a \in AccessTokens :
         LET fresh == [pc |-> "get_jwks", accessToken |-> a,
                       token |-> EmptyDict, jwks_call |-> EmptyDict,
                       jwks |-> EmptyDict, outcome |-> "none",
                       response |-> EmptyDict]
         IN  authorizer' =
               IF a.kind = "null"
               THEN \* None.startswith raises AttributeError inside the try
                    [fresh EXCEPT !.pc = "done", !.outcome = "AttributeError",
                                  !.response = AuthResponse("AttributeError")]
               ELSE IF StrippedToken(a) = EmptyDict
               THEN [fresh EXCEPT !.pc = "done", !.outcome = "no token",
                                  !.response = AuthResponse("no token")]
               ELSE [fresh EXCEPT !.token = StrippedToken(a)]
    /\ UNCHANGED <<proxy, client, waiter, jwks_cache, ingestion, evaluation>>

\* get_jwks, lines 32-39, called from get_signing_key at line 44
GetJwks ==
    /\ authorizer.pc = "get_jwks"
    /\ IF jwks_cache = <<>>
       THEN \E fetch \in FetchOutcomes, doc \in JwksDocs :
              /\ jwks_cache' = CacheAfterFetch(fetch, doc)
              /\ authorizer' =
                   IF fetch = "ok"
                   THEN [authorizer EXCEPT
                           !.pc = "validate", !.jwks = doc,
                           !.jwks_call = [before |-> jwks_cache, requested |-> TRUE,
                                          result |-> "returned", served |-> doc]]
                   ELSE [authorizer EXCEPT
                           !.pc = "done", !.outcome = fetch,
                           !.response = AuthResponse(fetch),
                           !.jwks_call = [before |-> jwks_cache, requested |-> TRUE,
                                          result |-> fetch]]
       ELSE /\ UNCHANGED jwks_cache
            /\ authorizer' =
                 [authorizer EXCEPT
                    !.pc = "validate", !.jwks = jwks_cache[1],
                    !.jwks_call = [before |-> jwks_cache, requested |-> FALSE,
                                   result |-> "returned"]]
    /\ UNCHANGED <<proxy, client, waiter, ingestion, evaluation>>

\* lines 47-58 and 76-100, then 142-154: the token is validated and the
\* response returned
Validate ==
    /\ authorizer.pc = "validate"
    /\ LET outcome == ValidateOutcome(authorizer.token, authorizer.jwks)
       IN  authorizer' = [authorizer EXCEPT !.pc = "done", !.outcome = outcome,
                                            !.response = AuthResponse(outcome)]
    /\ UNCHANGED <<proxy, client, waiter, jwks_cache, ingestion, evaluation>>

AuthNext ==
    \/ AuthInvoke
    \/ GetJwks
    \/ Validate

AuthSpec == AuthInit /\ [][AuthNext]_vars

(***************************************************************************)
(* What C25 speaks of.                                                     *)
(***************************************************************************)
\* the event carried a non-empty token
TokenPresent ==
    /\ authorizer.accessToken.kind = "str"
    /\ authorizer.accessToken.prefix # "" \/ authorizer.accessToken.token # EmptyDict

\* the token the invocation validated is one validate_token accepts with the
\* key set it was given: a JWT whose kid names a key of the set, which
\* jwt.decode accepts, and whose token_use is access or id
TokenValid ==
    LET t == authorizer.token
    IN  /\ t # EmptyDict
        /\ t.wellformed
        /\ t.kid \in {authorizer.jwks.keys[k].kid :
                        k \in DOMAIN Get(authorizer.jwks, "keys", <<>>)}
        /\ t.decode = "ok"
        /\ t.token_use \in {"access", "id"}

(***************************************************************************)
(* C25: the authorizer fails closed.  Its response has isAuthorized true,  *)
(* and then carries iamRoleArn, only if the event held a non-empty token   *)
(* and validate_token accepted it; a missing or empty token is rejected    *)
(* without get_jwks being called; and whenever something was raised the    *)
(* response has isAuthorized false and no iamRoleArn.                      *)
(***************************************************************************)
C25_FailsClosed ==
    authorizer.pc = "done" =>
        /\ "isAuthorized" \in DOMAIN authorizer.response
        /\ authorizer.response.isAuthorized =>
              /\ TokenPresent
              /\ authorizer.jwks_call # EmptyDict
              /\ TokenValid
              /\ authorizer.outcome = "ok"
              /\ "iamRoleArn" \in DOMAIN authorizer.response
        /\ ~TokenPresent =>
              /\ ~authorizer.response.isAuthorized
              /\ authorizer.jwks_call = EmptyDict
        /\ authorizer.outcome # "ok" =>
              authorizer.response = [isAuthorized |-> FALSE]

\* a token of a use other than access or id, otherwise valid, was refused
C25_Witness ==
    /\ authorizer.pc = "done"
    /\ TokenPresent
    /\ authorizer.token =
         [wellformed |-> TRUE, kid |-> "k1", decode |-> "ok", token_use |-> "refresh"]
    /\ authorizer.jwks = [keys |-> <<[kid |-> "k1"]>>]
    /\ authorizer.jwks_call # EmptyDict
    /\ authorizer.jwks_call.result = "returned"
    /\ authorizer.response = [isAuthorized |-> FALSE]

(***************************************************************************)
(* What C30 speaks of: authorizer.jwks_call records the call of get_jwks   *)
(* the invocation made: the cache it found, whether it sent a request, and *)
(* how it ended.                                                           *)
(***************************************************************************)
JwksCallAsClaimed ==
    authorizer.jwks_call # EmptyDict =>
        LET c == authorizer.jwks_call
        IN  /\ c.before # <<>> =>
                /\ ~c.requested
                /\ c.result = "returned"
                /\ authorizer.jwks = c.before[1]
                /\ jwks_cache = c.before
            /\ c.before = <<>> =>
                /\ c.requested
                /\ c.result = "returned" => jwks_cache = <<authorizer.jwks>>
                /\ c.result # "returned" => jwks_cache = <<>>

MaxRecords == 2

\* JSON null where a dict is expected
JsonNull == [null |-> TRUE]

\* str.lower(), on the letters the keys are written with
LowerChar(c) ==
    CASE c = "B" -> "b"
      [] c = "C" -> "c"
      [] c = "D" -> "d"
      [] c = "I" -> "i"
      [] c = "M" -> "m"
      [] OTHER -> c

RECURSIVE Lower(_)
Lower(s) ==
    IF Len(s) = 0 THEN ""
    ELSE LowerChar(SubSeq(s, 1, 1)) \o Lower(SubSeq(s, 2, Len(s)))

\* str.endswith(suffix)
EndsWith(s, suffix) ==
    /\ Len(s) >= Len(suffix)
    /\ SubSeq(s, Len(s) - Len(suffix) + 1, Len(s)) = suffix

\* line 48: key.lower().endswith(('.dcm', '.dicom'))
IsDicomKey(key) ==
    EndsWith(Lower(key), ".dcm") \/ EndsWith(Lower(key), ".dicom")

\* the keys of the uploaded objects; None is a null key
ObjectKeyNames == {"in/a.dcm", "B.DCM", "c.Dicom", "notes.txt", "a.dcm.bak", None}

\* the records of an event: those S3 writes, and records that lack a level
\* or hold null at it
S3Records ==
    {[s3 |-> [bucket |-> [name |-> "bucket"], object |-> [key |-> k]]] :
        k \in ObjectKeyNames}
    \cup {EmptyDict,
          [s3 |-> JsonNull],
          [s3 |-> [bucket |-> [name |-> "bucket"]]],
          [s3 |-> [bucket |-> [name |-> "bucket"], object |-> JsonNull]],
          [s3 |-> [bucket |-> [name |-> "bucket"], object |-> EmptyDict]]}

RecordLists == UNION {[1..n -> S3Records] : n \in 0..MaxRecords}

\* lines 42-48: how the extraction of bucket and key and the test of the
\* key end: "ok", or the exception raised
ExtractOutcome(record) ==
    IF "s3" \notin DOMAIN record THEN "KeyError"
    ELSE IF record.s3 = JsonNull THEN "TypeError"
    ELSE IF "bucket" \notin DOMAIN record.s3 THEN "KeyError"
    ELSE IF record.s3.bucket = JsonNull THEN "TypeError"
    ELSE IF "name" \notin DOMAIN record.s3.bucket THEN "KeyError"
    ELSE IF "object" \notin DOMAIN record.s3 THEN "KeyError"
    ELSE IF record.s3.object = JsonNull THEN "TypeError"
    ELSE IF "key" \notin DOMAIN record.s3.object THEN "KeyError"
    ELSE IF record.s3.object.key = None THEN "AttributeError"
    ELSE "ok"

\* line 114: record.get('s3', {}).get('object', {}).get('key', 'unknown');
\* .get on None raises AttributeError
FailedKey(record) ==
    LET s3 == Get(record, "s3", EmptyDict)
    IN  IF s3 = JsonNull THEN [raised |-> TRUE]
        ELSE LET object == Get(s3, "object", EmptyDict)
             IN  IF object = JsonNull THEN [raised |-> TRUE]
                 ELSE [raised |-> FALSE, key |-> Get(object, "key", "unknown")]

\* how a collaborator call ends
CallOutcomes == {"ok", "ClientError"}

\* mutant: a failure of the tracking is raised to the handler
AfterTracking_Raises(outcome) == IF outcome = "ok" THEN "emit" ELSE "except"

\* track_ingestion, lines 128-149: the exception is printed, not raised
AfterTracking(outcome) == "emit"

IngestInit ==
    /\ ProxyIdle
    /\ client = [pc |-> "idle"]
    /\ waiter = [pc |-> "idle"]
    /\ authorizer = [pc |-> "idle"]
    /\ evaluation = [pc |-> "idle"]
    /\ jwks_cache = <<>>
    /\ ingestion = [pc |-> "idle", records |-> <<>>, tracking_table |-> None,
                    i |-> 0, key |-> None, calls |-> <<>>, results |-> <<>>,
                    reported |-> <<>>, exc |-> "none", response |-> EmptyDict]

\* lines 27-37: a new invocation, up to results = []
IngestInvoke ==
    /\ ingestion.pc \in {"idle", "done", "raised"}
    /\ \E records \in RecordLists, table \in {None, "image-tracking"} :
         ingestion' = [pc |-> "loop", records |-> records, tracking_table |-> table,
                       i |-> 0, key |-> None, calls |-> <<>>, results |-> <<>>,
                       reported |-> <<>>, exc |-> "none", response |-> EmptyDict]
    /\ UNCHANGED <<proxy, client, waiter, jwks_cache, authorizer, evaluation>>

\* lines 39-50: the next record, the extraction of its key, and the test of
\* the key
ExtractKey ==
    /\ ingestion.pc = "loop"
    /\ ingestion.i < Len(ingestion.records)
    /\ LET n == ingestion.i + 1
           record == ingestion.records[n]
           outcome == ExtractOutcome(record)
       IN  ingestion' =
             IF outcome # "ok"
             THEN [ingestion EXCEPT !.i = n, !.key = None, !.pc = "except",
                                    !.exc = outcome]
             ELSE IF ~IsDicomKey(record.s3.object.key)
             THEN [ingestion EXCEPT !.i = n, !.key = record.s3.object.key]
             ELSE [ingestion EXCEPT !.i = n, !.key = record.s3.object.key,
                                    !.pc = "copy"]
    /\ UNCHANGED <<proxy, client, waiter, jwks_cache, authorizer, evaluation>>

\* lines 53-68: the copy into the import folder
CopyObject ==
    /\ ingestion.pc = "copy"
    /\ \E outcome \in CallOutcomes :
         ingestion' =
           [ingestion EXCEPT
              !.calls = Append(@, [record |-> ingestion.i, op |-> "copy_object",
                                   result |-> outcome]),
              !.pc = IF outcome = "ok" THEN "start" ELSE "except",
              !.exc = IF outcome = "ok" THEN @ ELSE outcome]
    /\ UNCHANGED <<proxy, client, waiter, jwks_cache, authorizer, evaluation>>

\* lines 70-86: the start of the import job
StartImportJob ==
    /\ ingestion.pc = "start"
    /\ \E outcome \in CallOutcomes :
         ingestion' =
           [ingestion EXCEPT
              !.calls = Append(@, [record |-> ingestion.i,
                                   op |-> "start_dicom_import_job",
                                   result |-> outcome]),
              !.pc = IF outcome = "ok" THEN "track" ELSE "except",
              !.exc = IF outcome = "ok" THEN @ ELSE outcome]
    /\ UNCHANGED <<proxy, client, waiter, jwks_cache, authorizer, evaluation>>

\* lines 88-95 and track_ingestion, 128-149
TrackIngestion ==
    /\ ingestion.pc = "track"
    /\ IF ingestion.tracking_table = None
       THEN ingestion' = [ingestion EXCEPT !.pc = "emit"]
       ELSE \E outcome \in CallOutcomes :
              ingestion' =
                [ingestion EXCEPT
                   !.calls = Append(@, [record |-> ingestion.i, op |-> "put_item",
                                        result |-> outcome]),
                   !.pc = AfterTracking(outcome),
                   !.exc = IF AfterTracking(outcome) = "except" THEN outcome ELSE @]
    /\ UNCHANGED <<proxy, client, waiter, jwks_cache, authorizer, evaluation>>

\* lines 97-109 and emit_ingestion_event, 152-180: the event is put, its
\* failure printed, and the record entered as STARTED; the job id is
\* written as the number of the record
EmitIngestionEvent ==
    /\ ingestion.pc = "emit"
    /\ \E outcome \in CallOutcomes :
         ingestion' =
           [ingestion EXCEPT
              !.calls = Append(@, [record |-> ingestion.i, op |-> "put_events",
                                   result |-> outcome]),
              !.results = Append(@, [key |-> ingestion.key, jobId |-> ingestion.i,
                                     status |-> "STARTED"]),
              !.reported = Append(@, ingestion.i),
              !.pc = "loop"]
    /\ UNCHANGED <<proxy, client, waiter, jwks_cache, authorizer, evaluation>>

\* lines 111-117: the except clause of the record
RecordFailed ==
    /\ ingestion.pc = "except"
    /\ LET failed == FailedKey(ingestion.records[ingestion.i])
       IN  ingestion' =
             IF failed.raised
             THEN [ingestion EXCEPT !.pc = "raised", !.exc = "AttributeError"]
             ELSE [ingestion EXCEPT
                     !.results = Append(@, [key |-> failed.key,
                                            error |-> ingestion.exc,
                                            status |-> "FAILED"]),
                     !.reported = Append(@, ingestion.i),
                     !.pc = "loop"]
    /\ UNCHANGED <<proxy, client, waiter, jwks_cache, authorizer, evaluation>>

\* lines 119-125: the loop is over
IngestReturn ==
    /\ ingestion.pc = "loop"
    /\ ingestion.i = Len(ingestion.records)
    /\ ingestion' = [ingestion EXCEPT
                       !.pc = "done",
                       !.response = [statusCode |-> 200,
                                     body |-> [message |-> "Ingestion processing complete",
                                               results |-> ingestion.results]]]
    /\ UNCHANGED <<proxy, client, waiter, jwks_cache, authorizer, evaluation>>

IngestNext ==
    \/ IngestInvoke
    \/ ExtractKey
    \/ CopyObject
    \/ StartImportJob
    \/ TrackIngestion
    \/ EmitIngestionEvent
    \/ RecordFailed
    \/ IngestReturn

IngestSpec == IngestInit /\ [][IngestNext]_vars

(***************************************************************************)
(* What C26 and C27 speak of.                                              *)
(***************************************************************************)
\* the record is left out for its name: its key was read and does not end
\* in .dcm or .dicom, in whatever case
LeftOutByName(record) ==
    /\ ExtractOutcome(record) = "ok"
    /\ ~IsDicomKey(record.s3.object.key)

\* the numbers of the records that were attempted, in the order of the event
RECURSIVE AttemptedUpTo(_)
AttemptedUpTo(n) ==
    IF n = 0 THEN <<>>
    ELSE IF LeftOutByName(ingestion.records[n]) THEN AttemptedUpTo(n - 1)
    ELSE Append(AttemptedUpTo(n - 1), n)

\* the calls made for record n, in order
CallsForRecord(n) == SelectSeq(ingestion.calls, LAMBDA c : c.record = n)

(***************************************************************************)
(* C26: the handler never raises; when it has returned, the status is 200, *)
(* every record of the event has been gone through, the results hold one   *)
(* entry, STARTED or FAILED, for each record that was not left out for its *)
(* name, in the order of the records, and no call was made for a record    *)
(* left out for its name.                                                  *)
(***************************************************************************)
C26_RecordsIsolated ==
    /\ ingestion.pc # "raised"
    /\ ingestion.pc = "done" =>
         /\ ingestion.response.statusCode = 200
         /\ ingestion.i = Len(ingestion.records)
         /\ ingestion.reported = AttemptedUpTo(Len(ingestion.records))
         /\ ingestion.response.body.results = ingestion.results
         /\ \A k \in DOMAIN ingestion.results :
              ingestion.results[k].status \in {"STARTED", "FAILED"}
         /\ \A n \in DOMAIN ingestion.records :
              LeftOutByName(ingestion.records[n]) => CallsForRecord(n) = <<>>

\* record n has been gone through
RecordDone(n) ==
    \/ ingestion.i > n
    \/ ingestion.i = n /\ ingestion.pc \in {"loop", "done"}

\* the entries of the results that were made for record n
EntriesOf(n) ==
    {ingestion.results[k] : k \in {j \in DOMAIN ingestion.reported :
                                      ingestion.reported[j] = n}}

\* the import job of record n was started
JobStarted(n) ==
    \E k \in DOMAIN ingestion.calls :
        /\ ingestion.calls[k] = [record |-> n, op |-> "start_dicom_import_job",
                                 result |-> "ok"]

\* a call of record n to op was made and failed
CallFailed(n, op) ==
    \E k \in DOMAIN ingestion.calls :
        /\ ingestion.calls[k].record = n
        /\ ingestion.calls[k].op = op
        /\ ingestion.calls[k].result # "ok"

(***************************************************************************)
(* C27: for each record, start_dicom_import_job is called only directly    *)
(* after a copy_object of the same record that succeeded; a record whose   *)
(* import job was started is entered as STARTED, and only so, whatever     *)
(* became of the tracking and of the event; and a record is entered as     *)
(* FAILED only if the extraction of its key, its copy or the start of its  *)
(* job failed.                                                             *)
(***************************************************************************)
C27_CopyThenStartThenStarted ==
    /\ \A k \in DOMAIN ingestion.calls :
         ingestion.calls[k].op = "start_dicom_import_job" =>
             /\ k > 1
             /\ ingestion.calls[k - 1] =
                  [record |-> ingestion.calls[k].record, op |-> "copy_object",
                   result |-> "ok"]
    /\ \A n \in DOMAIN ingestion.records :
         /\ JobStarted(n) /\ RecordDone(n) =>
              /\ EntriesOf(n) # {}
              /\ \A e \in EntriesOf(n) : e.status = "STARTED"
         /\ (\E e \in EntriesOf(n) : e.status = "FAILED") =>
              \/ ExtractOutcome(ingestion.records[n]) # "ok"
              \/ CallFailed(n, "copy_object")
              \/ CallFailed(n, "start_dicom_import_job")

\* the job of the first record was started, its tracking and its event both
\* failed, and the record is entered as STARTED; the copy of the second
\* record failed and it is entered as FAILED
C27_Witness ==
    /\ ingestion.pc = "done"
    /\ Len(ingestion.records) = 2
    /\ JobStarted(1)
    /\ CallFailed(1, "put_item")
    /\ CallFailed(1, "put_events")
    /\ CallFailed(2, "copy_object")
    /\ ingestion.results[1].status = "STARTED"
    /\ ingestion.results[2].status = "FAILED"

(***************************************************************************)
(* The model-evaluation handler,                                           *)
(* lambda_handlers/model_evaluation/handler.py.  Accuracies and thresholds *)
(* are counted in ten-thousandths: evaluate_model rounds to four places.   *)
(***************************************************************************)
\* line 42: the threshold when ACCURACY_THRESHOLD is not set, 0.85
DefaultThreshold == 8500

\* float(ACCURACY_THRESHOLD) for the values the variable may hold
Thresholds == {8000, DefaultThreshold, 9000, 9600}

\* lines 137 and 144: round(random.uniform(0.82, 0.95), 4)
Accuracies == {8200, 8499, 8500, 8501, 9000, 9500}

\* how put_item and put_metric_data end
MetricOutcomes == {"ok", "ClientError"}

\* how put_events ends: it returns, it raises, or it returns a reply whose
\* FailedEntryCount is 1, the entry not having been accepted
PutEventsOutcomes == {"ok", "ClientError", "FailedEntry"}

\* line 77: accuracy >= accuracy_threshold
Passes(accuracy, accuracy_threshold) == accuracy >= accuracy_threshold

\* lines 87-96 and 100-109: the response, without the message
EvaluationResponse(status, accuracy, accuracy_threshold) ==
    [statusCode |-> 200,
     body |-> [accuracy |-> accuracy, threshold |-> accuracy_threshold,
               status |-> status]]

EvalInit ==
    /\ ProxyIdle
    /\ client = [pc |-> "idle"]
    /\ waiter = [pc |-> "idle"]
    /\ authorizer = [pc |-> "idle"]
    /\ ingestion = [pc |-> "idle"]
    /\ jwks_cache = <<>>
    /\ evaluation = [pc |-> "idle", metrics_table_name |-> None,
                     accuracy_threshold |-> DefaultThreshold, accuracy |-> 0,
                     calls |-> <<>>, exc |-> "none", response |-> EmptyDict]

\* lines 36-42: a new invocation, up to the reading of the environment
EvalInvoke ==
    /\ evaluation.pc \in {"idle", "done"}
    /\ \E table \in {None, "model-metrics"}, threshold \in Thresholds :
         evaluation' = [pc |-> "evaluate", metrics_table_name |-> table,
                        accuracy_threshold |-> threshold, accuracy |-> 0,
                        calls |-> <<>>, exc |-> "none", response |-> EmptyDict]
    /\ UNCHANGED <<proxy, client, waiter, jwks_cache, authorizer, ingestion>>

\* lines 46-57 and evaluate_model, 121-155
EvaluateModel ==
    /\ evaluation.pc = "evaluate"
    /\ \E accuracy \in Accuracies :
         evaluation' = [evaluation EXCEPT !.accuracy = accuracy, !.pc = "store"]
    /\ UNCHANGED <<proxy, client, waiter, jwks_cache, authorizer, ingestion>>

\* lines 59-65 and store_metrics_in_dynamodb, 158-182
StoreMetrics ==
    /\ evaluation.pc = "store"
    /\ IF evaluation.metrics_table_name = None
       THEN evaluation' = [evaluation EXCEPT !.pc = "publish"]
       ELSE \E outcome \in MetricOutcomes :
              evaluation' =
                [evaluation EXCEPT
                   !.calls = Append(@, [op |-> "put_item", result |-> outcome]),
                   !.pc = IF outcome = "ok" THEN "publish" ELSE "except",
                   !.exc = IF outcome = "ok" THEN @ ELSE outcome]
    /\ UNCHANGED <<proxy, client, waiter, jwks_cache, authorizer, ingestion>>

\* lines 67-72 and publish_metrics_to_cloudwatch, 185-242
PublishMetrics ==
    /\ evaluation.pc = "publish"
    /\ \E outcome \in MetricOutcomes :
         evaluation' =
           [evaluation EXCEPT
              !.calls = Append(@, [op |-> "put_metric_data", result |-> outcome]),
              !.pc = IF outcome = "ok" THEN "check" ELSE "except",
              !.exc = IF outcome = "ok" THEN @ ELSE outcome]
    /\ UNCHANGED <<proxy, client, waiter, jwks_cache, authorizer, ingestion>>

\* lines 74-77 and 97-109: the test of the accuracy, and the response of a
\* model that does not pass
CheckAccuracy ==
    /\ evaluation.pc = "check"
    /\ evaluation' =
         IF Passes(evaluation.accuracy, evaluation.accuracy_threshold)
         THEN [evaluation EXCEPT !.pc = "emit"]
         ELSE [evaluation EXCEPT
                 !.pc = "done",
                 !.response = EvaluationResponse("REJECTED", evaluation.accuracy,
                                                 evaluation.accuracy_threshold)]
    /\ UNCHANGED <<proxy, client, waiter, jwks_cache, authorizer, ingestion>>

\* lines 80-96 and emit_evaluation_passed_event, 245-279: the reply of
\* put_events is printed and not looked at
EmitEvaluationPassed ==
    /\ evaluation.pc = "emit"
    /\ \E outcome \in PutEventsOutcomes :
         evaluation' =
           IF outcome = "ClientError"
           THEN [evaluation EXCEPT
                   !.calls = Append(@, [op |-> "put_events", result |-> outcome]),
                   !.pc = "except", !.exc = outcome]
           ELSE [evaluation EXCEPT
                   !.calls = Append(@, [op |-> "put_events", result |-> outcome]),
                   !.pc = "done",
                   !.response = EvaluationResponse("APPROVED", evaluation.accuracy,
                                                   evaluation.accuracy_threshold)]
    /\ UNCHANGED <<proxy, client, waiter, jwks_cache, authorizer, ingestion>>

\* lines 111-118: the except clause
EvalFailed ==
    /\ evaluation.pc = "except"
    /\ evaluation' = [evaluation EXCEPT
                        !.pc = "done",
                        !.response = [statusCode |-> 500,
                                      body |-> [error |-> evaluation.exc]]]
    /\ UNCHANGED <<proxy, client, waiter, jwks_cache, authorizer, ingestion>>

EvalNext ==
    \/ EvalInvoke
    \/ EvaluateModel
    \/ StoreMetrics
    \/ PublishMetrics
    \/ CheckAccuracy
    \/ EmitEvaluationPassed
    \/ EvalFailed

EvalSpec == EvalInit /\ [][EvalNext]_vars

(***************************************************************************)
(* What C28 speaks of.                                                     *)
(***************************************************************************)
\* the ModelEvaluationPassed event was put and accepted
EventEmitted ==
    \E k \in DOMAIN evaluation.calls :
        evaluation.calls[k] = [op |-> "put_events", result |-> "ok"]

\* the emission was tried and the event was not put
EmissionFailed ==
    \E k \in DOMAIN evaluation.calls :
        /\ evaluation.calls[k].op = "put_events"
        /\ evaluation.calls[k].result # "ok"

\* every call before call k returned, the publication is among them, and
\* so is the storing when a table is configured
StoredAndPublishedBefore(k) ==
    /\ \A j \in 1..(k - 1) : evaluation.calls[j].result = "ok"
    /\ \E j \in 1..(k - 1) : evaluation.calls[j].op = "put_metric_data"
    /\ evaluation.metrics_table_name # None =>
         \E j \in 1..(k - 1) : evaluation.calls[j].op = "put_item"

(***************************************************************************)
(* C28: when the handler has returned, the ModelEvaluationPassed event was *)
(* emitted if and only if the accuracy is at least the threshold; the      *)
(* status of the response is APPROVED in that case and REJECTED otherwise; *)
(* the event is put only after the metrics were stored and published; and  *)
(* the response is not APPROVED when the emission failed.                  *)
(***************************************************************************)
C28_EmittedIffPassed ==
    /\ \A k \in DOMAIN evaluation.calls :
         evaluation.calls[k].op = "put_events" => StoredAndPublishedBefore(k)
    /\ evaluation.pc = "done" =>
         /\ EventEmitted <=> evaluation.accuracy >= evaluation.accuracy_threshold
         /\ Get(evaluation.response.body, "status", None) =
              IF evaluation.accuracy >= evaluation.accuracy_threshold
              THEN "APPROVED" ELSE "REJECTED"
         /\ EmissionFailed =>
              Get(evaluation.response.body, "status", None) # "APPROVED"

============================================================================
